---- MODULE Spec2Model ----
(***************************************************************************)
(* Model of @firesite/service-registry: one registry adapter instance      *)
(* (file-backed NodeServiceRegistry, HTTP-backed BrowserServiceRegistry or  *)
(* event-store-backed FirebaseServiceRegistry) together with the store it  *)
(* talks to.  Every public method is one action; a method's awaits are      *)
(* taken without interleaving (sequential use of one instance).            *)
(***************************************************************************)
EXTENDS Integers, FiniteSets, Sequences, TLC

VARIABLES
  kind,              \* which adapter class was constructed
  now,               \* wall clock (ms), read by new Date() / Date.now()
  file,              \* content of registry.json (the persisted snapshot)
  last,              \* the most recent call on the adapter and its outcome
  remote,            \* snapshot served by the remote HTTP registry endpoint
  netUp,             \* whether a fetch of the registry endpoint succeeds
  cache,             \* BrowserServiceRegistry.cache entry for registryApiUrl
  fetched,           \* whether the last call on the HTTP adapter sent a
                     \* request to the registry endpoint
  clearedAt,         \* history: when cleanup() or configure() last emptied
                     \* a cache entry younger than CACHE_TTL
  isInitialized,     \* FirebaseServiceRegistry.isInitialized
  storeReachable,    \* whether initializeFirebase() would succeed now
  fallbackKind,      \* what createFallbackRegistry() returned
  fbServices,        \* event store: {base}/users/{ns}/services
  fbPresence,        \* event store: {base}/users/{ns}/presence
  hooks,             \* names whose presence has an armed onDisconnect().remove()
  currentServiceName,\* FirebaseServiceRegistry.currentServiceName
  healthTimers,      \* names with a running startHealthUpdates interval
  everRegistered,    \* history: names some register call has stored so far
  refFile,           \* snapshot of a directly constructed file adapter
  refLast,           \* outcome of the same call on that file adapter
  procs,             \* two processes sharing registry.json: where each is
                     \* in its register call and what it holds in memory
  overlapped,        \* history: a register call began while another had
                     \* loaded the snapshot and not yet saved it
  facade,            \* the ServiceRegistry facade in front of the adapter:
                     \* where it was constructed and its environment field
  idInput,           \* the string handed to sanitizeUserId
  userId,            \* the namespace key last resolved
  identity,          \* what getUserId() can consult: FIRESITE_USER_ID, the
                     \* output of `git config user.email`, os.userInfo()
  userIdFile,        \* content of ~/.firesite/user-id
  acting,            \* of two event-store adapter instances, the one whose
                     \* fields and store subtree the adapter variables hold
  rtdb,              \* the event store by path, as of the last change of
                     \* the acting instance
  parked,            \* the fields of the instance that is not acting
  cleanupTimer,      \* whether NodeServiceRegistry.cleanupTimer holds a
                     \* running interval (the fallback registry's, for the
                     \* event-store adapter)
  disposals,         \* history: how many dispose() calls have returned
  attempts,          \* history: how many times the last call tried to
                     \* read or write its store
  reg,               \* the register call of the event-store adapter that
                     \* is under way: the write it makes next, its arguments
  announced,         \* history: names whose register has returned success
                     \* on a connection that has not dropped since
  reader,            \* the file adapter's call that has loaded the
                     \* snapshot and not yet saved it
  namespace          \* the key in the paths of servicesRef and presenceRef

clockVars == <<now>>
fileVars  == <<file>>
httpVars  == <<remote, netUp, cache, fetched, clearedAt>>
fbVars    == <<isInitialized, storeReachable, fallbackKind, fbServices,
               fbPresence, hooks, currentServiceName, healthTimers>>
refVars   == <<refFile, refLast>>
\* state that only the scenarios further down use
raceVars      == <<procs, overlapped>>
facadeVars    == <<facade>>
identityVars  == <<idInput, userId, identity, userIdFile>>
isolationVars == <<acting, rtdb, parked>>
timerVars     == <<cleanupTimer, disposals>>
protocolVars  == <<attempts, reg, announced, reader, namespace>>
scenarioVars  == <<raceVars, facadeVars, identityVars, isolationVars,
                   timerVars, protocolVars>>
vars      == <<kind, now, file, last, remote, netUp, cache, fetched, clearedAt,
               isInitialized,
               storeReachable, fallbackKind, fbServices, fbPresence, hooks,
               currentServiceName, healthTimers, everRegistered, refFile,
               refLast, procs, overlapped, facade, idInput, userId, identity,
               userIdFile, acting, rtdb, parked, cleanupTimer, disposals,
               attempts, reg, announced, reader, namespace>>

----------------------------------------------------------------------------
(* Bounds of the model *)

\* BrowserServiceRegistry.CACHE_TTL (ms)
CACHE_TTL == 5000

\* the clock advances in steps of one cache lifetime, MaxTicks times
MaxTicks == 1
TickStep == CACHE_TTL
MaxTime  == MaxTicks * TickStep

Names == {"svc-a", "svc-b"}
Ports == {3000, 3001}

\* JavaScript values that have no TLA+ counterpart
Undefined == "undefined"      \* a property that is not set
NaN       == "NaN"            \* a number JSON cannot represent
JsonNull  == "null"
NoPid     == 0 - 1            \* pid property not set
SelfPid   == 4242             \* process.pid of the process owning the adapter

PidOpts    == {NoPid, 0, 1234}
HealthOpts == {Undefined, "/health"}
EmptyMeta  == [k \in {} |-> Undefined]
MetaOpts   == { EmptyMeta,
                [k \in {"version"} |-> "1.0.0"],
                [k \in {"version"} |-> NaN],
                [k \in {"userId"} |-> "mallory"] }

\* RegisterOptions (port required; pid, healthUrl, metadata optional; an
\* absent metadata behaves as {} in every use and is modelled as EmptyMeta).
\* The inputs tried: a fully specified one with each property varied over
\* its whole range, and the minimal one.
TypicalOptions ==
  [port |-> 3000, pid |-> 1234, healthUrl |-> "/health",
   metadata |-> [k \in {"version"} |-> "1.0.0"]]
MinimalOptions ==
  [port |-> 3001, pid |-> NoPid, healthUrl |-> Undefined,
   metadata |-> EmptyMeta]
RegisterOptions ==
  {[TypicalOptions EXCEPT !.port = p] : p \in Ports}
    \cup {[TypicalOptions EXCEPT !.pid = p] : p \in PidOpts}
    \cup {[TypicalOptions EXCEPT !.healthUrl = h] : h \in HealthOpts}
    \cup {[TypicalOptions EXCEPT !.metadata = m] : m \in MetaOpts}
    \cup {MinimalOptions}

\* register(name, options) calls tried: every option value for one service,
\* the two basic ones for the other service
RegisterInputs ==
  {<<"svc-a", options>> : options \in RegisterOptions}
    \cup {<<"svc-b", options>> : options \in {TypicalOptions, MinimalOptions}}

\* outcome of one HTTP GET of a service's health endpoint
ProbeOutcomes == {"ok", "notok", "neterr", "cors"}

----------------------------------------------------------------------------
(* Helpers on maps keyed by service name *)

EmptyMap == [n \in {} |-> Undefined]
Put(m, k, v) == [x \in (DOMAIN m) \cup {k} |-> IF x = k THEN v ELSE m[x]]
Remove(m, k) == [x \in (DOMAIN m) \ {k} |-> m[x]]
Values(m) == {m[x] : x \in DOMAIN m}

\* JavaScript truthiness of an optional string / number property
TruthyStr(s) == s # Undefined /\ s # ""
TruthyPid(p) == p # NoPid /\ p # 0

\* `http://localhost:${port}${healthUrl}`
HealthCheckUrlOf(port, healthUrl) == <<"http://localhost:", port, healthUrl>>
NoUrl == <<>>

\* JSON.parse(JSON.stringify(v)) of a metadata value
JsonValue(v) == IF v = NaN THEN JsonNull ELSE v
JsonMeta(m) == [k \in DOMAIN m |-> JsonValue(m[k])]
\* JSON.parse(JSON.stringify(service)): unset properties stay unset
JsonService(s) == [s EXCEPT !.metadata = JsonMeta(s.metadata)]
JsonServices(m) == [n \in DOMAIN m |-> JsonService(m[n])]

\* results of a call
Ok                 == [outcome |-> "ok"]
Null               == [outcome |-> "null"]
Found(s)           == [outcome |-> "record", value |-> s]
Listed(S)          == [outcome |-> "list", value |-> S]
Bool(b)            == [outcome |-> "bool", value |-> b]
ServiceNotFoundError     == [outcome |-> "SERVICE_NOT_FOUND"]
RegistryUnavailableError == [outcome |-> "REGISTRY_UNAVAILABLE"]
HealthCheckError         == [outcome |-> "HEALTH_CHECK_FAILED"]

----------------------------------------------------------------------------
(* File-backed adapter: NodeServiceRegistry *)

Missing == [exists |-> FALSE]

\* loadRegistry: a missing file reads as an empty registry
loadRegistry(f, t) ==
  IF f = Missing THEN [services |-> EmptyMap, lastUpdated |-> t]
  ELSE [services |-> f.services, lastUpdated |-> f.lastUpdated]

\* saveRegistry: the whole registry is serialised over the file
saveRegistry(registry) ==
  [exists |-> TRUE, services |-> JsonServices(registry.services),
   lastUpdated |-> registry.lastUpdated]

\* variant of ServiceInfoOf that records the adapter's own process id
\* whatever pid the caller gives
ServiceInfoOfOwnPid(name, options, t) ==
  [ name            |-> name,
    port            |-> options.port,
    pid             |-> SelfPid,
    status          |-> "running",
    startedAt       |-> t,
    healthUrl       |-> options.healthUrl,
    healthCheckUrl  |-> IF TruthyStr(options.healthUrl)
                        THEN HealthCheckUrlOf(options.port, options.healthUrl)
                        ELSE NoUrl,
    metadata        |-> options.metadata,
    lastHealthCheck |-> t,
    isHealthy       |-> TRUE ]

\* the ServiceInfo object built by register
ServiceInfoOf(name, options, t) ==
  [ name            |-> name,
    port            |-> options.port,
    pid             |-> IF TruthyPid(options.pid) THEN options.pid ELSE SelfPid,
    status          |-> "running",
    startedAt       |-> t,
    healthUrl       |-> options.healthUrl,
    healthCheckUrl  |-> IF TruthyStr(options.healthUrl)
                        THEN HealthCheckUrlOf(options.port, options.healthUrl)
                        ELSE NoUrl,
    metadata        |-> options.metadata,
    lastHealthCheck |-> t,
    isHealthy       |-> TRUE ]

\* performHealthCheck of the Node adapters: response.ok, false on any error
NodePerformHealthCheck(probe) == probe = "ok"

\* Each Node* operator maps (file before, inputs) to
\* [file |-> file after, result |-> value returned or error raised,
\*  probes |-> number of health probes sent]
NodeRegister(f, name, options, t) ==
  LET registry == loadRegistry(f, t)
      updated  == [services    |-> Put(registry.services, name,
                                       ServiceInfoOf(name, options, t)),
                   lastUpdated |-> t]
  IN [file |-> saveRegistry(updated), result |-> Ok, probes |-> 0]

\* variant of NodeDiscover that treats absence as an error, as unregister
\* does
NodeDiscoverAbsentRaises(f, name, includeHealth, probe, t) ==
  LET registry == loadRegistry(f, t)
  IN IF name \notin DOMAIN registry.services
     THEN [file |-> f, result |-> ServiceNotFoundError, probes |-> 0]
     ELSE LET service == registry.services[name]
          IN IF includeHealth /\ service.healthCheckUrl # NoUrl
             THEN LET checked == [service EXCEPT
                                    !.isHealthy = NodePerformHealthCheck(probe),
                                    !.lastHealthCheck = t]
                      updated == [registry EXCEPT !.services[name] = checked]
                  IN [file |-> saveRegistry(updated),
                      result |-> Found(checked), probes |-> 1]
             ELSE [file |-> f, result |-> Found(service), probes |-> 0]

NodeDiscover(f, name, includeHealth, probe, t) ==
  LET registry == loadRegistry(f, t)
  IN IF name \notin DOMAIN registry.services
     THEN [file |-> f, result |-> Null, probes |-> 0]
     ELSE LET service == registry.services[name]
          IN IF includeHealth /\ service.healthCheckUrl # NoUrl
             THEN LET checked == [service EXCEPT
                                    !.isHealthy = NodePerformHealthCheck(probe),
                                    !.lastHealthCheck = t]
                      updated == [registry EXCEPT !.services[name] = checked]
                  IN [file |-> saveRegistry(updated),
                      result |-> Found(checked), probes |-> 1]
             ELSE [file |-> f, result |-> Found(service), probes |-> 0]

\* variant of NodeUnregister that saves an empty services map instead of
\* deleting one key
NodeUnregisterClearsAll(f, name, t) ==
  LET registry == loadRegistry(f, t)
  IN IF name \notin DOMAIN registry.services
     THEN [file |-> f, result |-> ServiceNotFoundError, probes |-> 0]
     ELSE [file |-> saveRegistry([services |-> EmptyMap, lastUpdated |-> t]),
           result |-> Ok, probes |-> 0]

NodeUnregister(f, name, t) ==
  LET registry == loadRegistry(f, t)
  IN IF name \notin DOMAIN registry.services
     THEN [file |-> f, result |-> ServiceNotFoundError, probes |-> 0]
     ELSE [file |-> saveRegistry([services |-> Remove(registry.services, name),
                                  lastUpdated |-> t]),
           result |-> Ok, probes |-> 0]

\* variant of NodeCheckHealth that answers false for an absent service
NodeCheckHealthAbsentFalse(f, name, probe, t) ==
  LET found == NodeDiscover(f, name, FALSE, probe, t)
  IN IF found.result = Null
     THEN [file |-> f, result |-> Bool(FALSE), probes |-> 0]
     ELSE IF found.result.value.healthCheckUrl = NoUrl
     THEN [file |-> f, result |-> Bool(TRUE), probes |-> 0]
     ELSE LET isHealthy == NodePerformHealthCheck(probe)
              registry  == loadRegistry(f, t)
              updated   == [registry EXCEPT
                              !.services[name].isHealthy = isHealthy,
                              !.services[name].lastHealthCheck = t]
          IN [file |-> saveRegistry(updated),
              result |-> Bool(isHealthy), probes |-> 1]

\* variant of NodeCheckHealth that stamps the whole record, startedAt
\* included, with the time of the check
NodeCheckHealthRestamps(f, name, probe, t) ==
  LET found == NodeDiscover(f, name, FALSE, probe, t)
  IN IF found.result = Null
     THEN [file |-> f, result |-> ServiceNotFoundError, probes |-> 0]
     ELSE IF found.result.value.healthCheckUrl = NoUrl
     THEN [file |-> f, result |-> Bool(TRUE), probes |-> 0]
     ELSE LET isHealthy == NodePerformHealthCheck(probe)
              registry  == loadRegistry(f, t)
              updated   == [registry EXCEPT
                              !.services[name].isHealthy = isHealthy,
                              !.services[name].lastHealthCheck = t,
                              !.services[name].startedAt = t]
          IN [file |-> saveRegistry(updated),
              result |-> Bool(isHealthy), probes |-> 1]

NodeCheckHealth(f, name, probe, t) ==
  LET found == NodeDiscover(f, name, FALSE, probe, t)
  IN IF found.result = Null
     THEN [file |-> f, result |-> ServiceNotFoundError, probes |-> 0]
     ELSE IF found.result.value.healthCheckUrl = NoUrl
     THEN [file |-> f, result |-> Bool(TRUE), probes |-> 0]
     ELSE LET isHealthy == NodePerformHealthCheck(probe)
              registry  == loadRegistry(f, t)
              updated   == [registry EXCEPT
                              !.services[name].isHealthy = isHealthy,
                              !.services[name].lastHealthCheck = t]
          IN [file |-> saveRegistry(updated),
              result |-> Bool(isHealthy), probes |-> 1]

NodeListServices(f, t) ==
  [file |-> f, result |-> Listed(Values(loadRegistry(f, t).services)),
   probes |-> 0]

\* configure merges the given config into this.config and touches nothing else
NodeConfigure(f, config) == [file |-> f, result |-> Ok, probes |-> 0]

\* config.retryAttempts: checkHealth's loop runs attempts 0..retryAttempts
retryAttempts == 3

\* config.serviceTimeout (ms), the age a record must exceed to be examined
serviceTimeout == 300000

\* What one cleanup() call meets outside the adapter:
\*   live    - the pids for which process.kill(pid, 0) does not throw
\*   healthy - the names whose health endpoint answers with response.ok
\*   fault   - "read": reading the store throws (not ENOENT); "none"
StoreFaults == {"none", "read"}
CleanupEnvs ==
  [live : {{SelfPid}, {SelfPid, 1234}}, healthy : SUBSET Names,
   fault : StoreFaults]

Age(service, t) == t - service.startedAt

\* variant of NodeCleanupRemoves that examines records of any age
NodeCleanupRemovesAnyAge(service, env, t) ==
  \/ service.pid # 0 /\ service.pid \notin env.live
  \/ service.healthCheckUrl # NoUrl /\ service.name \notin env.healthy

\* variant of NodeCleanupRemoves that skips the process-existence probe
NodeCleanupRemovesByHealthOnly(service, env, t) ==
  /\ Age(service, t) > serviceTimeout
  /\ service.healthCheckUrl # NoUrl /\ service.name \notin env.healthy

\* the loop body of NodeServiceRegistry.cleanup: whether the record is
\* deleted, and whether its health endpoint is probed
NodeCleanupRemoves(service, env, t) ==
  /\ Age(service, t) > serviceTimeout
  /\ \/ service.pid # 0 /\ service.pid \notin env.live
     \/ service.healthCheckUrl # NoUrl /\ service.name \notin env.healthy
NodeCleanupProbes(service, env, t) ==
  /\ Age(service, t) > serviceTimeout
  /\ ~(service.pid # 0 /\ service.pid \notin env.live)
  /\ service.healthCheckUrl # NoUrl

NodeCleanup(f, env, t) ==
  IF env.fault = "read"
  THEN [file |-> f, result |-> Ok, probes |-> 0]
  ELSE LET registry == loadRegistry(f, t)
           gone == {n \in DOMAIN registry.services :
                      NodeCleanupRemoves(registry.services[n], env, t)}
           probed == {n \in DOMAIN registry.services :
                        NodeCleanupProbes(registry.services[n], env, t)}
           kept == [n \in (DOMAIN registry.services) \ gone |->
                      registry.services[n]]
       IN [file |-> IF gone = {} THEN f
                    ELSE saveRegistry([services |-> kept, lastUpdated |-> t]),
           result |-> Ok, probes |-> Cardinality(probed)]

----------------------------------------------------------------------------
(* HTTP-backed adapter: BrowserServiceRegistry *)

NoCache == [present |-> FALSE]

\* variant of fetchRegistry that goes to the endpoint even while the cached
\* snapshot is fresh
fetchRegistryIgnoresCache(c, r, up, t) ==
  IF up
  THEN [cache |-> [present |-> TRUE, data |-> r, timestamp |-> t],
        ok |-> TRUE, data |-> r, fetched |-> TRUE]
  ELSE IF c.present
  THEN [cache |-> c, ok |-> TRUE, data |-> c.data, fetched |-> TRUE]
  ELSE [cache |-> c, ok |-> FALSE, data |-> r, fetched |-> TRUE]

\* variant of fetchRegistry that raises when the fetch fails, without
\* looking for a stale cache entry
fetchRegistryNoStale(c, r, up, t) ==
  IF c.present /\ (t - c.timestamp) < CACHE_TTL
  THEN [cache |-> c, ok |-> TRUE, data |-> c.data, fetched |-> FALSE]
  ELSE IF up
  THEN [cache |-> [present |-> TRUE, data |-> r, timestamp |-> t],
        ok |-> TRUE, data |-> r, fetched |-> TRUE]
  ELSE [cache |-> c, ok |-> FALSE, data |-> r, fetched |-> TRUE]

\* fetchRegistry: fresh cache, else fetch and cache, else stale cache, else
\* RegistryUnavailableError.  Maps the cache entry, the endpoint's snapshot,
\* the network state and the time to
\* [cache |-> entry after, ok |-> a registry was obtained,
\*  data |-> that registry, fetched |-> a network request was sent]
fetchRegistry(c, r, up, t) ==
  IF c.present /\ (t - c.timestamp) < CACHE_TTL
  THEN [cache |-> c, ok |-> TRUE, data |-> c.data, fetched |-> FALSE]
  ELSE IF up
  THEN [cache |-> [present |-> TRUE, data |-> r, timestamp |-> t],
        ok |-> TRUE, data |-> r, fetched |-> TRUE]
  ELSE IF c.present
  THEN [cache |-> c, ok |-> TRUE, data |-> c.data, fetched |-> TRUE]
  ELSE [cache |-> c, ok |-> FALSE, data |-> r, fetched |-> TRUE]

\* variant of BrowserPerformHealthCheck without the CORS branch of the catch
BrowserPerformHealthCheckStrict(probe) == probe = "ok"

\* performHealthCheck of the browser adapter: response.ok; in the catch, true
\* for a TypeError whose message names CORS ("cors"), false for any other
\* failure ("neterr": connection failure, abort on timeout)
BrowserPerformHealthCheck(probe) == probe \in {"ok", "cors"}

\* Each Browser* operator maps the adapter state and inputs to
\* [cache |-> cache after, result |-> ..., probes |-> ...,
\*  fetched |-> a request was sent to the registry endpoint]
BrowserRegister(c, name, options) ==
  [cache |-> c, result |-> RegistryUnavailableError, probes |-> 0,
           fetched |-> FALSE]

\* variant of BrowserUnregister that also drops the cached snapshot
BrowserUnregisterDropsCache(c, name) ==
  [cache |-> NoCache, result |-> RegistryUnavailableError, probes |-> 0,
   fetched |-> FALSE]

BrowserUnregister(c, name) ==
  [cache |-> c, result |-> RegistryUnavailableError, probes |-> 0,
           fetched |-> FALSE]

BrowserDiscover(c, r, up, name, includeHealth, probe, t) ==
  LET got == fetchRegistry(c, r, up, t)
  IN IF ~got.ok
     THEN [cache |-> got.cache, result |-> RegistryUnavailableError,
           probes |-> 0,
           fetched |-> got.fetched]
     ELSE IF name \notin DOMAIN got.data.services
     THEN [cache |-> got.cache, result |-> Null, probes |-> 0,
           fetched |-> got.fetched]
     ELSE LET service == got.data.services[name]
          IN IF includeHealth /\ service.healthCheckUrl # NoUrl
             THEN [cache |-> got.cache,
                   result |-> Found([service EXCEPT
                     !.isHealthy = BrowserPerformHealthCheck(probe),
                     !.lastHealthCheck = t]),
                   probes |-> 1,
           fetched |-> got.fetched]
             ELSE [cache |-> got.cache, result |-> Found(service),
                   probes |-> 0,
           fetched |-> got.fetched]

BrowserCheckHealth(c, r, up, name, probe, t) ==
  LET found == BrowserDiscover(c, r, up, name, FALSE, probe, t)
  IN IF found.result = RegistryUnavailableError THEN found
     ELSE IF found.result = Null
     THEN [cache |-> found.cache, result |-> ServiceNotFoundError,
           probes |-> 0,
           fetched |-> found.fetched]
     ELSE IF found.result.value.healthCheckUrl = NoUrl
     THEN [cache |-> found.cache, result |-> Bool(TRUE), probes |-> 0,
           fetched |-> found.fetched]
     ELSE [cache |-> found.cache,
           result |-> Bool(BrowserPerformHealthCheck(probe)), probes |-> 1,
           fetched |-> found.fetched]

BrowserListServices(c, r, up, t) ==
  LET got == fetchRegistry(c, r, up, t)
  IN IF ~got.ok
     THEN [cache |-> got.cache, result |-> RegistryUnavailableError,
           probes |-> 0,
           fetched |-> got.fetched]
     ELSE [cache |-> got.cache, result |-> Listed(Values(got.data.services)),
           probes |-> 0,
           fetched |-> got.fetched]

\* variant of BrowserCleanup that leaves the cache as it is
BrowserCleanupKeepsCache(c) ==
  [cache |-> c, result |-> Ok, probes |-> 0, fetched |-> FALSE]

\* cleanup and configure only clear the cache
BrowserCleanup(c) ==
  [cache |-> NoCache, result |-> Ok, probes |-> 0,
           fetched |-> FALSE]

BrowserConfigure(c) ==
  [cache |-> NoCache, result |-> Ok, probes |-> 0,
           fetched |-> FALSE]

----------------------------------------------------------------------------
(* Event-store-backed adapter: FirebaseServiceRegistry *)

UserId   == "test-user-123"    \* the namespace key returned by getUserId()
Hostname == "test-hostname"

\* createFallbackRegistry: a NodeServiceRegistry, or the inert stand-in of
\* the catch branch when require('./node-registry.js') throws
FallbackKinds == {"file", "mock"}

\* initializeFirebase: returns at once when initialised; otherwise one
\* attempt, which leaves isInitialized false when it fails
initializeFirebase(initialized, reachable) == initialized \/ reachable

\* metadata: { ...options.metadata, userId, hostname, nodeVersion, platform,
\* sessionId }
FirebaseMetadata(metadata, t) ==
  LET extra == [userId     |-> UserId,
                hostname    |-> Hostname,
                nodeVersion |-> "process.version",
                platform    |-> "process.platform",
                sessionId   |-> <<UserId, t>>]
  IN [k \in (DOMAIN metadata) \cup (DOMAIN extra) |->
        IF k \in DOMAIN extra THEN extra[k] ELSE metadata[k]]

FirebaseServiceInfoOf(name, options, t) ==
  [ServiceInfoOf(name, options, t) EXCEPT
     !.metadata = FirebaseMetadata(options.metadata, t)]

PresenceOf(serviceInfo, t) ==
  [online |-> TRUE, lastSeen |-> t, pid |-> serviceInfo.pid,
   userId |-> UserId, hostname |-> Hostname]

\* `presence && presence.online` for the presence snapshot of a name
PresenceOnline(presence, name) ==
  name \in DOMAIN presence /\ presence[name].online

\* The calls forwarded to this.fallbackRegistry; same shape as Node*
FallbackRegister(f, name, options, t) ==
  IF fallbackKind = "file" THEN NodeRegister(f, name, options, t)
  ELSE [file |-> f, result |-> Ok, probes |-> 0]

FallbackDiscover(f, name, includeHealth, probe, t) ==
  IF fallbackKind = "file" THEN NodeDiscover(f, name, includeHealth, probe, t)
  ELSE [file |-> f, result |-> Null, probes |-> 0]

FallbackUnregister(f, name, t) ==
  IF fallbackKind = "file" THEN NodeUnregister(f, name, t)
  ELSE [file |-> f, result |-> Ok, probes |-> 0]

FallbackListServices(f, t) ==
  IF fallbackKind = "file" THEN NodeListServices(f, t)
  ELSE [file |-> f, result |-> Listed({}), probes |-> 0]

\* Each Firebase* operator maps the adapter's state and inputs to
\* [initialized, file, services, presence, hooks, current, timers, result,
\*  probes]: the state after the call and what the call returned
FirebaseState(init, f, services, presence, hk, current, timers, res, n) ==
  [initialized |-> init, file |-> f, services |-> services,
   presence |-> presence, hooks |-> hk, current |-> current,
   timers |-> timers, result |-> res, probes |-> n]

FirebaseViaFallback(r) ==
  FirebaseState(FALSE, r.file, fbServices, fbPresence, hooks,
                currentServiceName, healthTimers, r.result, r.probes)

FirebaseRegister(name, options, t) ==
  IF ~initializeFirebase(isInitialized, storeReachable)
  THEN FirebaseViaFallback(FallbackRegister(file, name, options, t))
  ELSE LET serviceInfo == FirebaseServiceInfoOf(name, options, t)
       IN FirebaseState(TRUE, file,
            Put(fbServices, name, serviceInfo),
            Put(fbPresence, name, PresenceOf(serviceInfo, t)),
            hooks \cup {name},
            name,
            IF TruthyStr(options.healthUrl)
            THEN healthTimers \cup {name} ELSE healthTimers,
            Ok, 0)

\* variant of FirebaseDiscover that trusts the ServiceRecord without
\* reading its presence
FirebaseDiscoverNoPresenceCheck(name, includeHealth, probe, t) ==
  IF ~initializeFirebase(isInitialized, storeReachable)
  THEN FirebaseViaFallback(
         FallbackDiscover(file, name, includeHealth, probe, t))
  ELSE IF name \notin DOMAIN fbServices
  THEN FirebaseState(TRUE, file, fbServices, fbPresence, hooks,
                     currentServiceName, healthTimers, Null, 0)
  ELSE LET service == fbServices[name]
       IN IF includeHealth /\ service.healthCheckUrl # NoUrl
          THEN LET checked == [service EXCEPT
                                 !.isHealthy = NodePerformHealthCheck(probe),
                                 !.lastHealthCheck = t]
               IN FirebaseState(TRUE, file,
                    [fbServices EXCEPT ![name] = checked], fbPresence, hooks,
                    currentServiceName, healthTimers, Found(checked), 1)
          ELSE FirebaseState(TRUE, file, fbServices, fbPresence, hooks,
                    currentServiceName, healthTimers, Found(service), 0)

FirebaseDiscover(name, includeHealth, probe, t) ==
  IF ~initializeFirebase(isInitialized, storeReachable)
  THEN FirebaseViaFallback(
         FallbackDiscover(file, name, includeHealth, probe, t))
  ELSE IF name \notin DOMAIN fbServices
  THEN FirebaseState(TRUE, file, fbServices, fbPresence, hooks,
                     currentServiceName, healthTimers, Null, 0)
  ELSE IF ~PresenceOnline(fbPresence, name)
  THEN FirebaseState(TRUE, file, Remove(fbServices, name), fbPresence, hooks,
                     currentServiceName, healthTimers, Null, 0)
  ELSE LET service == fbServices[name]
       IN IF includeHealth /\ service.healthCheckUrl # NoUrl
          THEN LET checked == [service EXCEPT
                                 !.isHealthy = NodePerformHealthCheck(probe),
                                 !.lastHealthCheck = t]
               IN FirebaseState(TRUE, file,
                    [fbServices EXCEPT ![name] = checked], fbPresence, hooks,
                    currentServiceName, healthTimers, Found(checked), 1)
          ELSE FirebaseState(TRUE, file, fbServices, fbPresence, hooks,
                    currentServiceName, healthTimers, Found(service), 0)

FirebaseUnregister(name, t) ==
  IF ~initializeFirebase(isInitialized, storeReachable)
  THEN FirebaseViaFallback(FallbackUnregister(file, name, t))
  ELSE FirebaseState(TRUE, file, Remove(fbServices, name),
                     Remove(fbPresence, name), hooks, currentServiceName,
                     healthTimers, Ok, 0)

\* variant of FirebaseCheckHealth that probes even without a health URL
FirebaseCheckHealthAlwaysProbes(name, probe, t) ==
  LET found == FirebaseDiscover(name, FALSE, probe, t)
  IN IF found.result = Null
     THEN [found EXCEPT !.result = ServiceNotFoundError]
     ELSE [found EXCEPT !.result = Bool(NodePerformHealthCheck(probe)),
                        !.probes = 1]

FirebaseCheckHealth(name, probe, t) ==
  LET found == FirebaseDiscover(name, FALSE, probe, t)
  IN IF found.result = Null
     THEN [found EXCEPT !.result = ServiceNotFoundError]
     ELSE IF found.result.value.healthCheckUrl = NoUrl
     THEN [found EXCEPT !.result = Bool(TRUE)]
     ELSE [found EXCEPT !.result = Bool(NodePerformHealthCheck(probe)),
                        !.probes = 1]

\* variant of FirebaseListServices that filters the list but leaves the
\* offline ServiceRecords in the store
FirebaseListServicesKeepsStale(t) ==
  IF ~initializeFirebase(isInitialized, storeReachable)
  THEN FirebaseViaFallback(FallbackListServices(file, t))
  ELSE LET online == {n \in DOMAIN fbServices : PresenceOnline(fbPresence, n)}
       IN FirebaseState(TRUE, file, fbServices, fbPresence, hooks,
            currentServiceName, healthTimers,
            Listed({fbServices[n] : n \in online}), 0)

FirebaseListServices(t) ==
  IF ~initializeFirebase(isInitialized, storeReachable)
  THEN FirebaseViaFallback(FallbackListServices(file, t))
  ELSE LET online == {n \in DOMAIN fbServices : PresenceOnline(fbPresence, n)}
       IN FirebaseState(TRUE, file,
            [n \in online |-> fbServices[n]], fbPresence, hooks,
            currentServiceName, healthTimers,
            Listed({fbServices[n] : n \in online}), 0)

\* cleanup: this.listServices(), then one probe per listed service that has
\* a health check URL and this.unregister(name) for each that is not healthy.
\* Neither call is inside a try block.
FirebaseCleanup(env, t) ==
  IF ~initializeFirebase(isInitialized, storeReachable)
  THEN IF fallbackKind = "mock"
       THEN FirebaseViaFallback([file |-> file, result |-> Ok, probes |-> 0])
       ELSE IF env.fault = "read"
       THEN FirebaseViaFallback(
              [file |-> file, result |-> RegistryUnavailableError,
               probes |-> 0])
       ELSE LET services == loadRegistry(file, t).services
                probed == {n \in DOMAIN services :
                             services[n].healthCheckUrl # NoUrl}
                unhealthy == probed \ env.healthy
                kept == [n \in (DOMAIN services) \ unhealthy |-> services[n]]
            IN FirebaseViaFallback(
                 [file |-> IF unhealthy = {} THEN file
                           ELSE saveRegistry([services |-> kept,
                                              lastUpdated |-> t]),
                  result |-> Ok, probes |-> Cardinality(probed)])
  ELSE IF env.fault = "read"
  THEN FirebaseState(TRUE, file, fbServices, fbPresence, hooks,
                     currentServiceName, healthTimers,
                     RegistryUnavailableError, 0)
  ELSE LET listed == FirebaseListServices(t)
           probed == {n \in DOMAIN listed.services :
                        listed.services[n].healthCheckUrl # NoUrl}
           unhealthy == probed \ env.healthy
       IN FirebaseState(TRUE, file,
            [n \in (DOMAIN listed.services) \ unhealthy |->
               listed.services[n]],
            [n \in (DOMAIN listed.presence) \ unhealthy |->
               listed.presence[n]],
            hooks, currentServiceName, healthTimers, Ok,
            Cardinality(probed))

----------------------------------------------------------------------------
(* The state machine *)

Kinds == {"file", "http", "firebase"}

\* the processes that share one registry.json, each with a
\* NodeServiceRegistry of its own
Procs == {"p1", "p2"}
\* a process outside any call
Idle == [pc |-> "idle"]

\* the adapter was constructed directly, not by a ServiceRegistry facade
NoFacade == [constructed |-> FALSE]

\* the scenario-only state while no scenario uses it
RaceIdle ==
  /\ procs = [p \in Procs |-> Idle]
  /\ overlapped = FALSE
\* no namespace key has been resolved
Unset == <<"unset">>
\* a source of the namespace key that cannot be consulted: the command or
\* the call throws
Unavailable == <<"unavailable">>
\* ~/.firesite/user-id does not exist
NoFile == <<"ENOENT">>
\* the environment of the test fixture: no override, a stored key
FixtureIdentity ==
  [override |-> Unset, gitEmail |-> Unavailable, username |-> Unavailable,
   homeWritable |-> TRUE]
IdentityIdle ==
  /\ idInput = Unset
  /\ userId = Unset
  /\ identity = FixtureIdentity
  /\ userIdFile = NoFile
FacadeIdle == facade = NoFacade

\* two FirebaseServiceRegistry instances in one process
Instances == {"i1", "i2"}
\* the namespace key initializeFirebase resolved for each
NamespaceOf == [i \in Instances |-> IF i = "i1" THEN "alice" ELSE "bob"]

\* const basePath = firesiteConfig?.registry?.rtdbPath || 'firesite-dev'
basePath == "firesite-dev"

\* variant of servicesPath that leaves the namespace key out
servicesPathShared(ns) == <<basePath, "services">>

\* `${basePath}/users/${userId}/services` and `.../presence`
servicesPath(ns) == <<basePath, "users", ns, "services">>
presencePath(ns) == <<basePath, "users", ns, "presence">>

Paths == UNION {{servicesPath(NamespaceOf[i]), presencePath(NamespaceOf[i])} :
                  i \in Instances}

\* the instance fields of a FirebaseServiceRegistry right after construction
FreshInstance ==
  [isInitialized |-> FALSE, hooks |-> {}, currentServiceName |-> Undefined,
   healthTimers |-> {}]

IsolationIdle ==
  /\ acting = "i1"
  /\ rtdb = [path \in Paths |-> EmptyMap]
  /\ parked = FreshInstance

\* the constructor of NodeServiceRegistry ends with this.startCleanup(); the
\* event-store adapter constructs one as its fallback registry, and the
\* HTTP adapter starts no timer
TimerIdle ==
  /\ cleanupTimer = \/ kind = "file"
                    \/ kind = "firebase" /\ fallbackKind = "file"
  /\ disposals = 0

ProtocolIdle ==
  attempts = 0 /\ reg = Idle /\ announced = {} /\ reader = Idle
    /\ namespace = Unset

ScenarioIdle ==
  /\ RaceIdle
  /\ FacadeIdle
  /\ IdentityIdle
  /\ IsolationIdle
  /\ TimerIdle
  /\ ProtocolIdle

\* history kept for the properties: cleanup() or configure() of the HTTP
\* adapter emptying a cache entry that had not expired
NoTime == 0 - 1
Clearing(op) ==
  clearedAt' = IF /\ op \in {"cleanup", "configure"}
                  /\ cache.present /\ (now - cache.timestamp) < CACHE_TTL
               THEN now ELSE clearedAt

\* history kept for the properties: a successful register adds its name
Registering(op, name, r) ==
  everRegistered' = IF op = "register" /\ r.result = Ok
                    THEN everRegistered \cup {name} ELSE everRegistered

NoCall == [op |-> "none", name |-> Undefined, arg |-> Undefined,
           result |-> Ok, probes |-> 0]
Call(op, name, arg, r) ==
  [op |-> op, name |-> name, arg |-> arg, result |-> r.result,
   probes |-> r.probes]

EmptyRegistry == [services |-> EmptyMap, lastUpdated |-> 0]

\* The adapter under study is one of the three; for the event-store
\* adapter the store is reachable or not for the whole behaviour.  The
\* fallback registry is consulted only while the store is unreachable, so
\* its kind is drawn only then.
InitCore ==
  /\ kind \in Kinds
  /\ now = 0
  /\ file = Missing
  /\ last = NoCall
  /\ remote = saveRegistry(EmptyRegistry)
  /\ netUp = TRUE
  /\ cache = NoCache
  /\ fetched = FALSE
  /\ clearedAt = NoTime
  /\ isInitialized = FALSE
  /\ storeReachable \in (IF kind = "firebase" THEN BOOLEAN ELSE {FALSE})
  /\ fallbackKind \in (IF kind = "firebase" /\ ~storeReachable
                       THEN FallbackKinds ELSE {"file"})
  /\ fbServices = EmptyMap
  /\ fbPresence = EmptyMap
  /\ hooks = {}
  /\ currentServiceName = Undefined
  /\ healthTimers = {}
  /\ everRegistered = {}
  /\ refFile = Missing
  /\ refLast = NoCall

Init == InitCore /\ ScenarioIdle

\* a call on a NodeServiceRegistry
NodeStep(op, name, arg, r) ==
  /\ kind = "file"
  /\ Registering(op, name, r)
  /\ file' = r.file
  /\ last' = Call(op, name, arg, r)
  /\ UNCHANGED <<kind, clockVars, httpVars, fbVars>>
  /\ UNCHANGED scenarioVars

\* a call on a BrowserServiceRegistry
BrowserStep(op, name, arg, r) ==
  /\ kind = "http"
  /\ Registering(op, name, r)
  /\ cache' = r.cache
  /\ fetched' = r.fetched
  /\ Clearing(op)
  /\ last' = Call(op, name, arg, r)
  /\ UNCHANGED <<kind, clockVars, fileVars, remote, netUp, fbVars>>
  /\ UNCHANGED scenarioVars

\* a call on a FirebaseServiceRegistry
FirebaseStep(op, name, arg, r) ==
  /\ kind = "firebase"
  /\ Registering(op, name, r)
  /\ isInitialized' = r.initialized
  /\ file' = r.file
  /\ fbServices' = r.services
  /\ fbPresence' = r.presence
  /\ hooks' = r.hooks
  /\ currentServiceName' = r.current
  /\ healthTimers' = r.timers
  /\ last' = Call(op, name, arg, r)
  /\ UNCHANGED <<kind, clockVars, httpVars, storeReachable, fallbackKind>>
  /\ UNCHANGED scenarioVars

Register(name, options) ==
  /\ \/ NodeStep("register", name, options,
                 NodeRegister(file, name, options, now))
     \/ BrowserStep("register", name, options,
                    BrowserRegister(cache, name, options))
     \/ FirebaseStep("register", name, options,
                     FirebaseRegister(name, options, now))
  /\ UNCHANGED refVars

Discover(name, includeHealth, probe) ==
  /\ \/ NodeStep("discover", name, includeHealth,
                 NodeDiscover(file, name, includeHealth, probe, now))
     \/ BrowserStep("discover", name, includeHealth,
                    BrowserDiscover(cache, remote, netUp, name, includeHealth,
                                    probe, now))
     \/ FirebaseStep("discover", name, includeHealth,
                     FirebaseDiscover(name, includeHealth, probe, now))
  /\ UNCHANGED refVars

Unregister(name) ==
  /\ \/ NodeStep("unregister", name, Undefined,
                 NodeUnregister(file, name, now))
     \/ BrowserStep("unregister", name, Undefined,
                    BrowserUnregister(cache, name))
     \/ FirebaseStep("unregister", name, Undefined,
                     FirebaseUnregister(name, now))
  /\ UNCHANGED refVars

CheckHealth(name, probe) ==
  /\ \/ NodeStep("checkHealth", name, Undefined,
                 NodeCheckHealth(file, name, probe, now))
     \/ BrowserStep("checkHealth", name, Undefined,
                    BrowserCheckHealth(cache, remote, netUp, name, probe, now))
     \/ FirebaseStep("checkHealth", name, Undefined,
                     FirebaseCheckHealth(name, probe, now))
  /\ UNCHANGED refVars

ListServices ==
  /\ \/ NodeStep("listServices", Undefined, Undefined,
                 NodeListServices(file, now))
     \/ BrowserStep("listServices", Undefined, Undefined,
                    BrowserListServices(cache, remote, netUp, now))
     \/ FirebaseStep("listServices", Undefined, Undefined,
                     FirebaseListServices(now))
  /\ UNCHANGED refVars

(* The environment *)

EnvCall(op, name) == [NoCall EXCEPT !.op = op, !.name = name]

\* time passes
Tick ==
  /\ now + TickStep <= MaxTime
  /\ now' = now + TickStep
  /\ UNCHANGED <<kind, fileVars, last, httpVars, fbVars, everRegistered,
                 refVars>>
  /\ UNCHANGED scenarioVars

\* the registry endpoint becomes unreachable / reachable again
NetworkChange ==
  /\ kind = "http"
  /\ netUp' = ~netUp
  /\ last' = EnvCall("network", Undefined)
  /\ UNCHANGED <<kind, clockVars, fileVars, remote, cache, fetched, clearedAt,
                 fbVars, everRegistered, refVars>>
  /\ UNCHANGED scenarioVars

\* the process serving the endpoint registers or unregisters a service in
\* the snapshot it serves (its records carry that process's own timestamps,
\* which the HTTP adapter never reads: they are fixed at 0)
RemoteRegister(name, options) ==
  /\ kind = "http"
  /\ remote' = NodeRegister(remote, name, options, 0).file
  /\ last' = EnvCall("remote", name)
  /\ everRegistered' = everRegistered \cup {name}
  /\ UNCHANGED <<kind, clockVars, fileVars, netUp, cache, fetched, clearedAt,
                 fbVars, refVars>>
  /\ UNCHANGED scenarioVars

RemoteUnregister(name) ==
  /\ kind = "http"
  /\ name \in DOMAIN remote.services
  /\ remote' = NodeUnregister(remote, name, 0).file
  /\ last' = EnvCall("remote", name)
  /\ UNCHANGED <<kind, clockVars, fileVars, netUp, cache, fetched, clearedAt,
                 fbVars, everRegistered, refVars>>
  /\ UNCHANGED scenarioVars

\* the adapter's connection to the event store drops: the store runs every
\* armed onDisconnect().remove()
Disconnect ==
  /\ kind = "firebase"
  /\ isInitialized
  /\ hooks # {}
  /\ fbPresence' = [n \in (DOMAIN fbPresence) \ hooks |-> fbPresence[n]]
  /\ hooks' = {}
  /\ last' = EnvCall("disconnect", Undefined)
  /\ UNCHANGED <<kind, clockVars, fileVars, httpVars, isInitialized,
                 storeReachable, fallbackKind, fbServices,
                 currentServiceName, healthTimers, everRegistered, refVars>>
  /\ UNCHANGED scenarioVars

\* another writer of the namespace marks a presence record offline
PresenceMarkedOffline(name) ==
  /\ kind = "firebase"
  /\ name \in DOMAIN fbPresence
  /\ fbPresence[name].online
  /\ fbPresence' = [fbPresence EXCEPT ![name].online = FALSE]
  /\ last' = EnvCall("presence", name)
  /\ UNCHANGED <<kind, clockVars, fileVars, httpVars, isInitialized,
                 storeReachable, fallbackKind, fbServices, hooks,
                 currentServiceName, healthTimers, everRegistered, refVars>>
  /\ UNCHANGED scenarioVars

Next ==
  \/ \E input \in RegisterInputs : Register(input[1], input[2])
  \/ \E name \in Names, includeHealth \in BOOLEAN :
       \E probe \in (IF includeHealth THEN ProbeOutcomes ELSE {"ok"}) :
         Discover(name, includeHealth, probe)
  \/ \E name \in Names : Unregister(name)
  \/ \E name \in Names, probe \in ProbeOutcomes : CheckHealth(name, probe)
  \/ ListServices
  \/ Tick
  \/ NetworkChange
  \/ \E name \in Names, options \in {TypicalOptions, MinimalOptions} :
       RemoteRegister(name, options)
  \/ \E name \in Names : RemoteUnregister(name)
  \/ Disconnect
  \/ \E name \in Names : PresenceMarkedOffline(name)

Spec == Init /\ [][Next]_vars

----------------------------------------------------------------------------
(* Vocabulary of the properties *)

\* the step is the call `op` on the adapter (calls do not move the clock)
CallStep(op) == now' = now /\ last'.op = op

\* the event-store adapter would use the event store for a call made now
OnEventStore == kind = "firebase" /\ (isInitialized \/ storeReachable)
\* the adapter writes to a store of its own (HTTP is discovery-only)
WriteCapable == kind \in {"file", "firebase"}

\* the snapshot the HTTP adapter would obtain for a call made now
HttpSnapshot == fetchRegistry(cache, remote, netUp, now)

\* the service records of the store as the adapter can read it now
StoreRecords ==
  CASE kind = "file" -> loadRegistry(file, now).services
    [] kind = "http" -> IF HttpSnapshot.ok THEN HttpSnapshot.data.services
                        ELSE EmptyMap
    [] kind = "firebase" ->
         IF OnEventStore THEN fbServices
         ELSE IF fallbackKind = "file" THEN loadRegistry(file, now).services
         ELSE EmptyMap
\* the store can be read at all
StoreReadable == kind = "http" => HttpSnapshot.ok
InStore(name) == name \in DOMAIN StoreRecords
\* registered and, in the event store, confirmed online by its presence
Registered(name) ==
  /\ InStore(name)
  /\ OnEventStore => PresenceOnline(fbPresence, name)

\* keys the event-store adapter sets itself in every record's metadata
ReservedMetaKeys ==
  {"userId", "hostname", "nodeVersion", "platform", "sessionId"}
JsonRepresentable(metadata) == \A k \in DOMAIN metadata : metadata[k] # NaN

\* discover(name) is called right after a successful register(name, X)
DiscoverAfterRegister ==
  /\ last.op = "register" /\ last.result = Ok
  /\ CallStep("discover") /\ last'.name = last.name

----------------------------------------------------------------------------
(* C1 as claimed: on the file and event-store adapters, discover(name)     *)
(* right after register(name, X) returns a record whose port, pid,         *)
(* healthUrl and metadata equal those given in X.                           *)
C1_RoundTripAsClaimed ==
  [][ (WriteCapable /\ DiscoverAfterRegister) =>
        /\ last'.result.outcome = "record"
        /\ last'.result.value.port = last.arg.port
        /\ last.arg.pid # NoPid => last'.result.value.pid = last.arg.pid
        /\ last'.result.value.healthUrl = last.arg.healthUrl
        /\ last'.result.value.metadata = last.arg.metadata ]_vars

(* C1 as amended: on the file adapter and on the event-store adapter using *)
(* the event store, discover(name) right after register(name, X) returns   *)
(* a record with X's port and healthUrl, with X's pid when X gives a        *)
(* non-zero one (the adapter's own process id otherwise), and, for          *)
(* JSON-representable metadata, with X's metadata on the file adapter and   *)
(* X's metadata plus the adapter's reserved keys (which override X's) on    *)
(* the event store.                                                         *)
C1_RoundTrip ==
  [][ ((kind = "file" \/ OnEventStore) /\ DiscoverAfterRegister) =>
        /\ last'.result.outcome = "record"
        /\ LET X == last.arg
               found == last'.result.value
           IN /\ found.name = last.name
              /\ found.port = X.port
              /\ found.pid = (IF X.pid \in {NoPid, 0} THEN SelfPid ELSE X.pid)
              /\ found.healthUrl = X.healthUrl
              /\ found.status = "running"
              /\ JsonRepresentable(X.metadata) =>
                   IF kind = "file" THEN found.metadata = X.metadata
                   ELSE /\ DOMAIN found.metadata =
                             (DOMAIN X.metadata) \cup ReservedMetaKeys
                        /\ \A k \in (DOMAIN X.metadata) \ ReservedMetaKeys :
                             found.metadata[k] = X.metadata[k]
                        /\ found.metadata["userId"] = UserId ]_vars

\* a record registered with its own metadata was discovered on the event store
C1_Witness ==
  /\ kind = "firebase" /\ isInitialized
  /\ last.op = "discover" /\ last.result.outcome = "record"
  /\ last.result.value.startedAt = now
  /\ last.result.value.pid = 1234
  /\ "version" \in DOMAIN last.result.value.metadata
  /\ last.result.value.metadata["userId"] = UserId

----------------------------------------------------------------------------
(* C2: last write wins.  On an adapter that can register, registering a    *)
(* name already in the store never raises, and when register(name, p2)     *)
(* directly follows register(name, p1) with p1 # p2 the store afterwards   *)
(* holds one record for name, the one with port p2 (which is what discover *)
(* reads).                                                                  *)
C2_LastWriteWins ==
  [][ (WriteCapable /\ CallStep("register")) =>
        /\ InStore(last'.name) => last'.result = Ok
        /\ ( /\ last.op = "register" /\ last.result = Ok
             /\ last'.name = last.name
             /\ last'.arg.port # last.arg.port )
           => /\ last'.result = Ok
              /\ last'.name \in DOMAIN StoreRecords'
              /\ StoreRecords'[last'.name].port = last'.arg.port ]_vars

----------------------------------------------------------------------------
(* C3: absence is a normal result.  In every adapter, discover(name) on a  *)
(* name that is not in the store the adapter reads returns null, and       *)
(* listServices() on an empty store (file adapter: also a missing snapshot *)
(* file) returns the empty list; neither raises.                            *)
C3_AbsenceIsNormal ==
  [][ /\ (CallStep("discover") /\ StoreReadable /\ ~InStore(last'.name))
           => last'.result = Null
      /\ (CallStep("listServices") /\ StoreReadable
            /\ DOMAIN StoreRecords = {})
           => last'.result = Listed({}) ]_vars

\* discover returned null while the snapshot file does not exist
C3_Witness ==
  /\ kind = "file" /\ file = Missing
  /\ last.op = "discover" /\ last.result = Null

----------------------------------------------------------------------------
(* C4: unregister(name) on a name that was never registered raises         *)
(* ServiceNotFoundError (stated here for the file adapter and for the      *)
(* event-store adapter using the event store; the claim also names the     *)
(* HTTP adapter).                                                           *)
C4_UnregisterUnknownRaisesNotFound ==
  [][ ( /\ (kind = "file" \/ OnEventStore) /\ CallStep("unregister")
        /\ last'.name \notin everRegistered )
        => last'.result = ServiceNotFoundError ]_vars

----------------------------------------------------------------------------
(* C5: life cycle on the file adapter.  unregister(name) of a registered   *)
(* name succeeds and removes exactly that record, leaving every other      *)
(* record as it was; right after it discover(name) returns null and        *)
(* unregister(name) raises ServiceNotFoundError.                           *)
C5_FileLifeCycle ==
  [][ kind = "file" =>
        /\ (CallStep("unregister") /\ InStore(last'.name)) =>
             /\ last'.result = Ok
             /\ DOMAIN file'.services = (DOMAIN file.services) \ {last'.name}
             /\ \A other \in DOMAIN file'.services :
                  file'.services[other] = file.services[other]
        /\ ( /\ last.op = "unregister" /\ last.result = Ok
             /\ last'.name = last.name ) =>
             /\ CallStep("discover") => last'.result = Null
             /\ CallStep("unregister") =>
                  last'.result = ServiceNotFoundError /\ file' = file ]_vars

\* a second unregister of a once registered name raised NotFound while the
\* other service's record is still in the snapshot
C5_Witness ==
  /\ kind = "file"
  /\ last.op = "unregister" /\ last.result = ServiceNotFoundError
  /\ last.name \in everRegistered
  /\ file # Missing
  /\ DOMAIN file.services = Names \ {last.name}

----------------------------------------------------------------------------
----------------------------------------------------------------------------
(* C7: in every adapter, checkHealth(name) on a registered service whose   *)
(* record has no health path returns true and sends no health probe.       *)
NoHealthPath(record) ==
  ~TruthyStr(record.healthUrl) /\ record.healthCheckUrl = NoUrl

----------------------------------------------------------------------------
(* C8: self-healing read of the event-store adapter.  discover(name)       *)
(* returns a record only if the PresenceRecord of name is present with     *)
(* online = true; when the ServiceRecord exists but presence is absent or  *)
(* offline, discover returns null and the ServiceRecord is deleted, and    *)
(* nothing else in the store changes.                                       *)
C8_SelfHealingDiscover ==
  [][ (OnEventStore /\ CallStep("discover")) =>
        /\ last'.result.outcome = "record" =>
             /\ last'.name \in DOMAIN fbServices
             /\ PresenceOnline(fbPresence, last'.name)
             /\ last'.result.value.name = fbServices[last'.name].name
             /\ last'.result.value.port = fbServices[last'.name].port
        /\ (last'.name \in DOMAIN fbServices
              /\ ~PresenceOnline(fbPresence, last'.name)) =>
             /\ last'.result = Null
             /\ DOMAIN fbServices' = (DOMAIN fbServices) \ {last'.name}
             /\ \A other \in DOMAIN fbServices' :
                  fbServices'[other] = fbServices[other]
             /\ fbPresence' = fbPresence ]_vars

\* after the registrant's disconnect hook fired, discover of its service
\* returned null and the ServiceRecord is gone
C8_Witness ==
  /\ kind = "firebase" /\ isInitialized
  /\ last.op = "discover" /\ last.result = Null
  /\ currentServiceName = last.name /\ hooks = {}
  /\ last.name \notin DOMAIN fbPresence
  /\ last.name \notin DOMAIN fbServices

----------------------------------------------------------------------------
(* C9: listServices() of the event-store adapter returns exactly the       *)
(* ServiceRecords whose presence is online, deletes every ServiceRecord    *)
(* whose presence is absent or offline, and leaves the others unchanged.   *)
OnlineNames == {n \in DOMAIN fbServices : PresenceOnline(fbPresence, n)}

C9_ListFiltersByPresence ==
  [][ (OnEventStore /\ CallStep("listServices")) =>
        /\ last'.result = Listed({fbServices[n] : n \in OnlineNames})
        /\ DOMAIN fbServices' = OnlineNames
        /\ \A n \in OnlineNames : fbServices'[n] = fbServices[n]
        /\ fbPresence' = fbPresence ]_vars

\* of two registered services one was marked offline: the list holds the
\* other one only and the offline one's ServiceRecord was deleted
C9_Witness ==
  /\ kind = "firebase" /\ isInitialized
  /\ last.op = "listServices" /\ last.result.outcome = "list"
  /\ everRegistered = Names
  /\ \E n \in Names :
       /\ n \in DOMAIN fbPresence /\ ~fbPresence[n].online
       /\ DOMAIN fbServices = Names \ {n}
       /\ last.result.value = {fbServices[m] : m \in Names \ {n}}

----------------------------------------------------------------------------
(* The fallback scenario: an event-store adapter whose store is            *)
(* unreachable, run call by call next to a directly constructed            *)
(* NodeServiceRegistry on a snapshot file of its own that starts equal.    *)

InitFallback ==
  /\ kind = "firebase"
  /\ now = 0
  /\ file = Missing
  /\ last = NoCall
  /\ remote = saveRegistry(EmptyRegistry)
  /\ netUp = TRUE
  /\ cache = NoCache
  /\ fetched = FALSE
  /\ clearedAt = NoTime
  /\ isInitialized = FALSE
  /\ storeReachable = FALSE
  /\ fallbackKind \in FallbackKinds
  /\ fbServices = EmptyMap
  /\ fbPresence = EmptyMap
  /\ hooks = {}
  /\ currentServiceName = Undefined
  /\ healthTimers = {}
  /\ everRegistered = {}
  /\ refFile = Missing
  /\ refLast = NoCall
  /\ ScenarioIdle

\* the same call on the directly constructed file adapter
Reference(op, name, arg, r) ==
  /\ refFile' = r.file
  /\ refLast' = Call(op, name, arg, r)

PairRegister(name, options) ==
  /\ FirebaseStep("register", name, options,
                  FirebaseRegister(name, options, now))
  /\ Reference("register", name, options,
               NodeRegister(refFile, name, options, now))

PairDiscover(name, includeHealth, probe) ==
  /\ FirebaseStep("discover", name, includeHealth,
                  FirebaseDiscover(name, includeHealth, probe, now))
  /\ Reference("discover", name, includeHealth,
               NodeDiscover(refFile, name, includeHealth, probe, now))

PairUnregister(name) ==
  /\ FirebaseStep("unregister", name, Undefined,
                  FirebaseUnregister(name, now))
  /\ Reference("unregister", name, Undefined,
               NodeUnregister(refFile, name, now))

NextFallback ==
  \/ \E input \in RegisterInputs : PairRegister(input[1], input[2])
  \/ \E name \in Names, includeHealth \in BOOLEAN, probe \in ProbeOutcomes :
       PairDiscover(name, includeHealth, probe)
  \/ \E name \in Names : PairUnregister(name)
  \/ Tick

SpecFallback == InitFallback /\ [][NextFallback]_vars

(* C10: fallback equivalence.  With the event store unreachable, every     *)
(* register / discover / unregister on the event-store adapter returns     *)
(* what the same call returns on a directly constructed file adapter       *)
(* (same record, same error) and leaves the same persisted snapshot.       *)
C10_FallbackEquivalence ==
  /\ last = refLast
  /\ file = refFile

----------------------------------------------------------------------------
(* The fallback scenario continued: checkHealth and cleanup, with a clock  *)
(* coarse enough for records to outlive the service timeout.               *)

\* the clock advances by one service timeout, MaxElapses times
MaxElapses == 2
ElapseStep == serviceTimeout

Elapse ==
  /\ now + ElapseStep <= MaxElapses * ElapseStep
  /\ now' = now + ElapseStep
  /\ UNCHANGED <<kind, fileVars, last, httpVars, fbVars, everRegistered,
                 refVars>>
  /\ UNCHANGED scenarioVars

PairCheckHealth(name, probe) ==
  /\ FirebaseStep("checkHealth", name, Undefined,
                  FirebaseCheckHealth(name, probe, now))
  /\ Reference("checkHealth", name, Undefined,
               NodeCheckHealth(refFile, name, probe, now))

PairCleanup(env) ==
  /\ FirebaseStep("cleanup", Undefined, env, FirebaseCleanup(env, now))
  /\ Reference("cleanup", Undefined, env, NodeCleanup(refFile, env, now))

NextFallbackHealth ==
  \/ \E name \in Names, options \in {TypicalOptions, MinimalOptions} :
       PairRegister(name, options)
  \/ \E name \in Names, probe \in ProbeOutcomes : PairCheckHealth(name, probe)
  \/ \E env \in CleanupEnvs : PairCleanup(env)
  \/ Elapse

SpecFallbackHealth == InitFallback /\ [][NextFallbackHealth]_vars

(* C11: with the event store unreachable, checkHealth and cleanup on the   *)
(* event-store adapter return what the same call returns on a file adapter  *)
(* and leave the same snapshot file (stated for the fallback that is a     *)
(* NodeServiceRegistry, starting from equal snapshot files).               *)
C11_FallbackHealthEquivalence ==
  [][ ( /\ fallbackKind = "file" /\ file = refFile
        /\ now' = now /\ last'.op \in {"checkHealth", "cleanup"} )
        => /\ last'.result = refLast'.result
           /\ file' = refFile' ]_vars

----------------------------------------------------------------------------
(* The initialisation scenario: one event-store adapter instance while the *)
(* outcome an initialisation attempt would have changes between its calls.  *)

\* what initializeFirebase() would meet changes (the Admin SDK, credentials
\* or the network come or go) while the instance is not initialised
ReachabilityChange ==
  /\ kind = "firebase"
  /\ ~isInitialized
  /\ storeReachable' = ~storeReachable
  /\ UNCHANGED <<kind, clockVars, fileVars, last, httpVars, isInitialized,
                 fallbackKind, fbServices, fbPresence, hooks,
                 currentServiceName, healthTimers, everRegistered, refVars>>
  /\ UNCHANGED scenarioVars

FbRegister(name, options) ==
  /\ FirebaseStep("register", name, options,
                  FirebaseRegister(name, options, now))
  /\ UNCHANGED refVars

FbDiscover(name, includeHealth, probe) ==
  /\ FirebaseStep("discover", name, includeHealth,
                  FirebaseDiscover(name, includeHealth, probe, now))
  /\ UNCHANGED refVars

FbUnregister(name) ==
  /\ FirebaseStep("unregister", name, Undefined,
                  FirebaseUnregister(name, now))
  /\ UNCHANGED refVars

FbListServices ==
  /\ FirebaseStep("listServices", Undefined, Undefined,
                  FirebaseListServices(now))
  /\ UNCHANGED refVars

NextSticky ==
  \/ \E name \in Names, options \in {TypicalOptions, MinimalOptions} :
       FbRegister(name, options)
  \/ \E name \in Names, includeHealth \in BOOLEAN :
       \E probe \in (IF includeHealth THEN ProbeOutcomes ELSE {"ok"}) :
         FbDiscover(name, includeHealth, probe)
  \/ \E name \in Names : FbUnregister(name)
  \/ FbListServices
  \/ ReachabilityChange

SpecSticky == InitFallback /\ [][NextSticky]_vars

(* C12: sticky fallback decision.  Once an operation of an event-store     *)
(* adapter instance has run, the instance stays on the side that operation *)
(* used: an instance whose initialisation failed is never initialised by a *)
(* later operation, and an initialised instance stays initialised.         *)
C12_StickyFallback ==
  [][ (kind = "firebase" /\ last.op # "none")
        => isInitialized' = isInitialized ]_vars

----------------------------------------------------------------------------
(* The cleanup scenario: one adapter of any kind, services registered with *)
(* and without a pid of their own and a health path, the clock advancing   *)
(* by whole service timeouts, and cleanup() called in between.             *)

\* registrations tried: with and without a health path, under another
\* process's pid (1234) and under the adapter's own
CleanupOptions ==
  {TypicalOptions, MinimalOptions,
   [TypicalOptions EXCEPT !.pid = NoPid],
   [TypicalOptions EXCEPT !.healthUrl = Undefined]}

Cleanup(env) ==
  /\ \/ NodeStep("cleanup", Undefined, env, NodeCleanup(file, env, now))
     \/ BrowserStep("cleanup", Undefined, env, BrowserCleanup(cache))
     \/ FirebaseStep("cleanup", Undefined, env, FirebaseCleanup(env, now))
  /\ UNCHANGED refVars

NextCleanup ==
  \/ \E name \in Names, options \in CleanupOptions : Register(name, options)
  \/ \E name \in Names : Discover(name, FALSE, "ok")
  \/ \E env \in CleanupEnvs : Cleanup(env)
  \/ Elapse

SpecCleanup == Init /\ [][NextCleanup]_vars

(* C13: cleanup() never raises to its caller, in any adapter, whatever     *)
(* store-access or probe failure occurs during the call.                   *)
C13_CleanupNeverRaises ==
  [][ CallStep("cleanup") => last'.result = Ok ]_vars

\* the records of the snapshot file a cleanup step removed
RemovedByCleanup == (DOMAIN loadRegistry(file, now).services)
                      \ (DOMAIN loadRegistry(file', now).services)

(* C14: the file adapter's cleanup() removes a record only if every        *)
(* liveness check that applies to it fails: the process-existence probe of *)
(* its pid, and, when it has a health path, the health probe.              *)
C14_RemovalNeedsAllChecks ==
  [][ (kind = "file" /\ CallStep("cleanup")) =>
        \A n \in RemovedByCleanup :
          /\ file.services[n].pid \notin last'.arg.live
          /\ file.services[n].healthCheckUrl # NoUrl
               => n \notin last'.arg.healthy ]_vars

(* C15: the file adapter's cleanup() never removes or changes a record     *)
(* whose age does not exceed the service timeout, whatever the probes      *)
(* answer.                                                                  *)
C15_YoungRecordsStay ==
  [][ (kind = "file" /\ CallStep("cleanup")) =>
        \A n \in DOMAIN loadRegistry(file, now).services :
          Age(file.services[n], now) <= serviceTimeout
            => /\ n \in DOMAIN loadRegistry(file', now).services
               /\ file'.services[n] = file.services[n] ]_vars

\* a cleanup that found every probe failing left a record of another
\* process's pid in place, its age being exactly the service timeout
C15_Witness ==
  /\ kind = "file" /\ last.op = "cleanup"
  /\ last.arg.live = {SelfPid} /\ last.arg.healthy = {}
  /\ last.arg.fault = "none"
  /\ file # Missing
  /\ \E n \in DOMAIN file.services :
       /\ file.services[n].pid = 1234
       /\ Age(file.services[n], now) = serviceTimeout
  /\ DOMAIN file.services # everRegistered

(* C16: file adapter cleanup scenario.  Of the records older than the      *)
(* service timeout that have no health path, cleanup() removes those whose *)
(* pid is not a live process and keeps, unchanged, those whose pid is.     *)
C16_CleanupScenario ==
  [][ (kind = "file" /\ CallStep("cleanup") /\ last'.arg.fault = "none") =>
        \A n \in DOMAIN loadRegistry(file, now).services :
          ( /\ Age(file.services[n], now) > serviceTimeout
            /\ NoHealthPath(file.services[n]) )
          => IF file.services[n].pid \in last'.arg.live
             THEN /\ n \in DOMAIN loadRegistry(file', now).services
                  /\ file'.services[n] = file.services[n]
             ELSE n \notin DOMAIN loadRegistry(file', now).services ]_vars

\* of two old records without a health path, cleanup removed the one whose
\* process is gone and kept the one whose process lives
C16_Witness ==
  /\ kind = "file" /\ last.op = "cleanup" /\ last.arg.fault = "none"
  /\ everRegistered = Names
  /\ file # Missing
  /\ \E n \in Names :
       /\ DOMAIN file.services = {n}
       /\ file.services[n].pid = SelfPid
       /\ NoHealthPath(file.services[n])
       /\ Age(file.services[n], now) > serviceTimeout

----------------------------------------------------------------------------
(* The HTTP scenario: one BrowserServiceRegistry, the endpoint's snapshot  *)
(* and the network changing under it, and a clock fine enough to fall      *)
(* inside one cache lifetime.                                               *)

\* the clock advances in steps of half a cache lifetime, MaxHttpTicks times
MaxHttpTicks == 3
HttpTickStep == CACHE_TTL \div 2

HttpTick ==
  /\ kind = "http"
  /\ now + HttpTickStep <= MaxHttpTicks * HttpTickStep
  /\ now' = now + HttpTickStep
  /\ UNCHANGED <<kind, fileVars, last, httpVars, fbVars, everRegistered,
                 refVars>>
  /\ UNCHANGED scenarioVars

HttpRegister(name, options) ==
  /\ BrowserStep("register", name, options,
                 BrowserRegister(cache, name, options))
  /\ UNCHANGED refVars

HttpUnregister(name) ==
  /\ BrowserStep("unregister", name, Undefined,
                 BrowserUnregister(cache, name))
  /\ UNCHANGED refVars

HttpDiscover(name, includeHealth, probe) ==
  /\ BrowserStep("discover", name, includeHealth,
                 BrowserDiscover(cache, remote, netUp, name, includeHealth,
                                 probe, now))
  /\ UNCHANGED refVars

HttpListServices ==
  /\ BrowserStep("listServices", Undefined, Undefined,
                 BrowserListServices(cache, remote, netUp, now))
  /\ UNCHANGED refVars

\* the probe outcome is kept as the call's argument
HttpCheckHealth(name, probe) ==
  /\ BrowserStep("checkHealth", name, probe,
                 BrowserCheckHealth(cache, remote, netUp, name, probe, now))
  /\ UNCHANGED refVars

HttpCleanup ==
  /\ BrowserStep("cleanup", Undefined, Undefined, BrowserCleanup(cache))
  /\ UNCHANGED refVars

HttpConfigure ==
  /\ BrowserStep("configure", Undefined, Undefined, BrowserConfigure(cache))
  /\ UNCHANGED refVars

InitHttp == Init /\ kind = "http"

NextHttp ==
  \/ \E name \in Names, options \in {TypicalOptions, MinimalOptions} :
       HttpRegister(name, options)
  \/ \E name \in Names : HttpUnregister(name)
  \/ \E name \in Names, includeHealth \in BOOLEAN :
       \E probe \in (IF includeHealth THEN ProbeOutcomes ELSE {"ok"}) :
         HttpDiscover(name, includeHealth, probe)
  \/ HttpListServices
  \/ \E name \in Names, probe \in ProbeOutcomes : HttpCheckHealth(name, probe)
  \/ HttpCleanup
  \/ HttpConfigure
  \/ HttpTick
  \/ NetworkChange
  \/ RemoteRegister("svc-a", TypicalOptions)
  \/ RemoteRegister("svc-b", MinimalOptions)
  \/ \E name \in Names : RemoteUnregister(name)

SpecHttp == InitHttp /\ [][NextHttp]_vars

\* the step is a discover or listServices call on the HTTP adapter
HttpRead == kind = "http" /\ now' = now
              /\ last'.op \in {"discover", "listServices"}

\* the call of the step answered from the snapshot `data`
AnsweredFrom(data) ==
  /\ last'.op = "listServices" => last'.result = Listed(Values(data.services))
  /\ last'.op = "discover" =>
       IF last'.name \in DOMAIN data.services
       THEN /\ last'.result.outcome = "record"
            /\ last'.result.value.name = last'.name
            /\ last'.result.value.port = data.services[last'.name].port
       ELSE last'.result = Null

C18_CacheWithinTtl ==
  [][ (HttpRead /\ cache.present) =>
        IF (now - cache.timestamp) < CACHE_TTL
        THEN ~fetched' /\ cache' = cache /\ AnsweredFrom(cache.data)
        ELSE fetched' ]_vars

\* half a cache lifetime after the fetch, with the endpoint reachable and
\* its snapshot changed meanwhile, discover answered null from the cache
C18_Witness ==
  /\ kind = "http" /\ last.op = "discover" /\ last.result = Null
  /\ ~fetched /\ netUp
  /\ cache.present /\ now - cache.timestamp = HttpTickStep
  /\ last.name \in DOMAIN remote.services

(* C19: HTTP adapter stale fallback.  When the fetch fails while the cache *)
(* holds any snapshot, however old, discover and listServices answer from  *)
(* that snapshot and raise nothing; they raise a store error only when the *)
(* fetch fails and the cache is empty.                                      *)
C19_StaleFallback ==
  [][ HttpRead =>
        /\ (~netUp /\ cache.present)
             => AnsweredFrom(cache.data) /\ cache' = cache
        /\ last'.result = RegistryUnavailableError
             => ~netUp /\ ~cache.present /\ fetched' ]_vars

\* with the endpoint unreachable and the cached snapshot expired,
\* listServices sent a request and then answered the cached services
C19_Witness ==
  /\ kind = "http" /\ last.op = "listServices"
  /\ fetched /\ ~netUp
  /\ cache.present /\ now - cache.timestamp >= CACHE_TTL
  /\ last.result = Listed(Values(cache.data.services))
  /\ cache.data.services # EmptyMap
  /\ remote # cache.data

(* C20: on the HTTP adapter cleanup() and configure() empty the cache      *)
(* without sending a request, and the discover or listServices that        *)
(* follows sends one, however recent the fetch before the clearing was.    *)
C20_ClearingForcesFetch ==
  [][ kind = "http" /\ now' = now =>
        /\ last'.op \in {"cleanup", "configure"}
             => cache' = NoCache /\ ~fetched' /\ last'.result = Ok
        /\ ( /\ last.op \in {"cleanup", "configure"}
             /\ last'.op \in {"discover", "listServices"} )
             => fetched' ]_vars

\* cleanup emptied a cache entry that had not expired, and the discover
\* right after it, at the same instant, went to the endpoint
C20_Witness ==
  /\ kind = "http" /\ last.op = "discover"
  /\ fetched /\ netUp
  /\ clearedAt = now /\ now > 0
  /\ cache.present /\ cache.timestamp = now

----------------------------------------------------------------------------
----------------------------------------------------------------------------
(* The shared-file scenario: two processes, each with a NodeServiceRegistry *)
(* on the same registry.json, each making one register call.  A call takes  *)
(* three steps, one per point where the code waits on the file system:      *)
(* loadRegistry reads the file; fs.writeFile opens it, which empties it;    *)
(* fs.writeFile writes the serialised registry from the start of the file.  *)

\* the file after it was opened for writing and before anything is written
Truncated == [exists |-> TRUE, text |-> "empty"]
\* the file after a write landed on another writer's text: unless that text
\* was not longer, its tail is left behind the new text
Mangled == [exists |-> TRUE, text |-> "mangled"]
\* JSON.parse throws on the file's text
Unparsable(f) == f \in {Truncated, Mangled}

RaceOptions == {TypicalOptions, MinimalOptions}

\* variant of RegisterUpdate that starts from an empty services map
RegisterUpdateDropsOthers(registry, name, options, t) ==
  [services    |-> Put(EmptyMap, name, ServiceInfoOf(name, options, t)),
   lastUpdated |-> t]

\* registry.services[name] = serviceInfo; registry.lastUpdated = now
RegisterUpdate(registry, name, options, t) ==
  [services    |-> Put(registry.services, name,
                       ServiceInfoOf(name, options, t)),
   lastUpdated |-> t]

\* register up to `await this.saveRegistry(registry)`: the snapshot is read
\* and the new record put into the copy in memory; a read that throws
\* anything but ENOENT makes register raise RegistryUnavailableError
RaceLoad(p, name, options) ==
  /\ kind = "file"
  /\ procs[p].pc = "idle"
  /\ procs' = [procs EXCEPT ![p] =
        IF Unparsable(file)
        THEN [pc |-> "done", name |-> name,
              result |-> RegistryUnavailableError]
        ELSE [pc |-> "loaded", name |-> name,
              registry |-> RegisterUpdate(loadRegistry(file, now), name,
                                          options, now)]]
  /\ overlapped' = (overlapped \/ \E q \in Procs \ {p} :
                                    procs[q].pc \in {"loaded", "writing"})
  /\ UNCHANGED <<kind, clockVars, fileVars, last, httpVars, fbVars,
                 everRegistered, refVars, facadeVars, timerVars, identityVars,
                 isolationVars>>
  /\ UNCHANGED protocolVars

\* fs.writeFile, first half: the file is opened with flag 'w'
RaceOpen(p) ==
  /\ kind = "file"
  /\ procs[p].pc = "loaded"
  /\ file' = Truncated
  /\ procs' = [procs EXCEPT ![p].pc = "writing"]
  /\ UNCHANGED <<kind, clockVars, last, httpVars, fbVars, everRegistered,
                 refVars, overlapped, facadeVars, timerVars, identityVars,
                 isolationVars>>
  /\ UNCHANGED protocolVars

\* fs.writeFile, second half: the text is written and register returns.
\* Over text another process wrote since this one opened the file, the
\* result is this text alone or this text followed by the other's tail.
RaceWrite(p, clean) ==
  /\ kind = "file"
  /\ procs[p].pc = "writing"
  /\ clean \/ file # Truncated
  /\ file' = IF clean THEN saveRegistry(procs[p].registry) ELSE Mangled
  /\ procs' = [procs EXCEPT ![p] =
                 [pc |-> "done", name |-> procs[p].name, result |-> Ok]]
  /\ UNCHANGED <<kind, clockVars, last, httpVars, fbVars, everRegistered,
                 refVars, overlapped, facadeVars, timerVars, identityVars,
                 isolationVars>>
  /\ UNCHANGED protocolVars

InitRace == Init /\ kind = "file"

NextRace ==
  \/ \E p \in Procs, name \in Names, options \in RaceOptions :
       RaceLoad(p, name, options)
  \/ \E p \in Procs : RaceOpen(p)
  \/ \E p \in Procs, clean \in BOOLEAN : RaceWrite(p, clean)

SpecRace == InitRace /\ [][NextRace]_vars

\* both register calls returned success, for two different names
BothRegistered ==
  /\ \A p \in Procs : procs[p].pc = "done" /\ procs[p].result = Ok
  /\ procs["p1"].name # procs["p2"].name

\* the names the snapshot file holds
NamesInFile == IF Unparsable(file) THEN {}
               ELSE DOMAIN loadRegistry(file, now).services

(* C22: lost-update race of the file adapter.  When two processes have     *)
(* each returned successfully from register on different names, both names *)
(* are in the snapshot if one call completed before the other started, and *)
(* at most one of them is if the calls overlapped.                         *)
C22_LostUpdateRace ==
  BothRegistered =>
    IF overlapped THEN Cardinality(NamesInFile) <= 1
    ELSE NamesInFile = {procs["p1"].name, procs["p2"].name}

\* both calls returned success and the readable snapshot holds only the
\* name of one of them
C22_Witness ==
  /\ BothRegistered /\ overlapped
  /\ ~Unparsable(file)
  /\ \E p \in Procs : NamesInFile = {procs[p].name}

----------------------------------------------------------------------------
(* The health scenario: one adapter of any kind, services registered with *)
(* and without a health path, discover and checkHealth under every probe   *)
(* outcome, the clock advancing, and presence records going away.          *)

\* What one checkHealth() call meets outside the adapter:
\*   probe - the outcome of a GET of the health endpoint
\*   live  - the pids of the processes that exist
HealthEnvs == [probe : ProbeOutcomes, live : {{SelfPid}, {SelfPid, 1234}}]

\* checkHealth with what it meets kept as the call's argument
ProbedCheckHealth(name, env) ==
  /\ \/ NodeStep("checkHealth", name, env,
                 NodeCheckHealth(file, name, env.probe, now))
     \/ BrowserStep("checkHealth", name, env,
                    BrowserCheckHealth(cache, remote, netUp, name, env.probe,
                                       now))
     \/ FirebaseStep("checkHealth", name, env,
                     FirebaseCheckHealth(name, env.probe, now))
  /\ UNCHANGED refVars

NextHealthOps ==
  \/ \E name \in Names, options \in {TypicalOptions, MinimalOptions} :
       Register(name, options)
  \/ \E name \in Names, includeHealth \in BOOLEAN :
       \E probe \in (IF includeHealth THEN ProbeOutcomes ELSE {"ok"}) :
         Discover(name, includeHealth, probe)
  \/ \E name \in Names, env \in HealthEnvs : ProbedCheckHealth(name, env)
  \/ Tick
  \/ \E name \in Names, options \in {TypicalOptions, MinimalOptions} :
       RemoteRegister(name, options)
  \/ Disconnect
  \/ \E name \in Names : PresenceMarkedOffline(name)

SpecHealthOps == Init /\ [][NextHealthOps]_vars

\* the service records as persisted in the store behind the adapter (for
\* the HTTP adapter: the snapshot the endpoint serves, not the cached copy)
Persisted == IF kind = "http" THEN remote.services ELSE StoreRecords

\* the step is a discover or checkHealth call
HealthOp == now' = now /\ last'.op \in {"discover", "checkHealth"}

\* a record with its two health fields masked
SansHealth(record) ==
  [record EXCEPT !.isHealthy = TRUE, !.lastHealthCheck = 0]

\* between the two maps of records nothing differs but the isHealthy and
\* lastHealthCheck of the record for name
OnlyHealthFieldsDiffer(before, after, name) ==
  /\ DOMAIN after = DOMAIN before
  /\ \A n \in DOMAIN before :
       IF n = name THEN SansHealth(after[n]) = SansHealth(before[n])
       ELSE after[n] = before[n]

(* C23 as claimed: in every adapter, discover(name, includeHealth) and     *)
(* checkHealth(name) change at most the lastHealthCheck and isHealthy      *)
(* fields of the record for name.                                          *)
C23_HealthOpsAsClaimed ==
  [][ HealthOp => OnlyHealthFieldsDiffer(Persisted, Persisted', last'.name)
    ]_vars

(* C23 as amended: discover(name, includeHealth) and checkHealth(name)     *)
(* change at most the lastHealthCheck and isHealthy fields of the record   *)
(* for name, except that on the event store they delete the record for     *)
(* name when its presence is absent or offline; they never change the name *)
(* or startedAt of a record, nor any record of another name, nor a         *)
(* presence record.                                                         *)
C23_HealthOpsOnlyCache ==
  [][ HealthOp =>
        /\ IF /\ OnEventStore /\ last'.name \in DOMAIN fbServices
              /\ ~PresenceOnline(fbPresence, last'.name)
           THEN Persisted' = Remove(Persisted, last'.name)
           ELSE OnlyHealthFieldsDiffer(Persisted, Persisted', last'.name)
        /\ \A n \in DOMAIN Persisted' :
             /\ n \in DOMAIN Persisted
             /\ Persisted'[n].name = Persisted[n].name
             /\ Persisted'[n].startedAt = Persisted[n].startedAt
        /\ fbPresence' = fbPresence ]_vars

\* a checkHealth later than the registration stored its verdict and its
\* time in the record and left startedAt as it was
C23_Witness ==
  /\ kind = "file" /\ last.op = "checkHealth" /\ last.result = Bool(FALSE)
  /\ file # Missing /\ last.name \in DOMAIN file.services
  /\ ~file.services[last.name].isHealthy
  /\ file.services[last.name].lastHealthCheck = now
  /\ file.services[last.name].startedAt < now

----------------------------------------------------------------------------
(* C24: file adapter checkHealth(name) on a registered service with a      *)
(* health path.  When no attempt of the probe gets a response (connection  *)
(* failure or timeout) the probe is tried retryAttempts + 1 times and the  *)
(* call raises HealthCheckError; when the probe gets a response with a     *)
(* non-success status the call returns false and raises nothing.           *)
C24_ProbeRetriesThenFails ==
  [][ ( /\ kind = "file" /\ CallStep("checkHealth")
        /\ InStore(last'.name)
        /\ StoreRecords[last'.name].healthCheckUrl # NoUrl )
        => /\ last'.arg.probe = "neterr" =>
                /\ last'.result = HealthCheckError
                /\ last'.probes = retryAttempts + 1
           /\ last'.arg.probe = "notok" => last'.result = Bool(FALSE) ]_vars

----------------------------------------------------------------------------
(* C25: file adapter checkHealth(name) on a registered service returns     *)
(* false when the pid of its record is not the pid of an existing process, *)
(* and true when that process exists and no health probe fails (the record *)
(* has no health check URL, or the probe succeeds).                        *)
C25_CheckHealthProbesPid ==
  [][ (kind = "file" /\ CallStep("checkHealth") /\ InStore(last'.name)) =>
        LET record == StoreRecords[last'.name]
        IN IF record.pid \notin last'.arg.live
           THEN last'.result = Bool(FALSE)
           ELSE (record.healthCheckUrl = NoUrl \/ last'.arg.probe = "ok")
                  => last'.result = Bool(TRUE) ]_vars

----------------------------------------------------------------------------
(* The facade scenario: a ServiceRegistry constructed in some runtime      *)
(* context with some value of config.useFirebase, and the calls it         *)
(* forwards to the adapter it built.                                       *)

\* runtime contexts: Node.js (process.versions.node set), a page (window
\* and window.document), a worker (self only), none of these
Contexts == {"node", "window", "worker", "none"}

\* detectEnvironment: 'node' in Node.js, 'browser' in every other case
detectEnvironment(context) == IF context = "node" THEN "node" ELSE "browser"

\* createImplementation: new NodeServiceRegistry(config) in 'node', new
\* BrowserServiceRegistry(config) otherwise
createImplementation(environment, config) ==
  IF environment = "node" THEN "file" ELSE "http"

Configs == [useFirebase : BOOLEAN]

\* the constructor of ServiceRegistry
InitFacade ==
  /\ InitCore
  /\ \E context \in Contexts, config \in Configs :
       /\ facade = [constructed |-> TRUE, context |-> context,
                    config |-> config,
                    environment |-> detectEnvironment(context)]
       /\ kind = createImplementation(detectEnvironment(context), config)
  /\ RaceIdle
  /\ IdentityIdle
  /\ IsolationIdle
  /\ TimerIdle
  /\ ProtocolIdle

\* configure(config) forwarded to the adapter
Configure(config) ==
  /\ \/ NodeStep("configure", Undefined, config, NodeConfigure(file, config))
     \/ BrowserStep("configure", Undefined, config, BrowserConfigure(cache))
  /\ UNCHANGED refVars

NextFacade ==
  \/ \E name \in Names, options \in {TypicalOptions, MinimalOptions} :
       Register(name, options)
  \/ \E name \in Names : Discover(name, FALSE, "ok")
  \/ \E name \in Names : Unregister(name)
  \/ ListServices
  \/ \E config \in Configs : Configure(config)
  \/ RemoteRegister("svc-a", TypicalOptions)
  \/ Tick

SpecFacade == InitFacade /\ [][NextFacade]_vars

\* getEnvironment()
getEnvironment == facade.environment

(* C26: adapter selection by the facade.  A ServiceRegistry constructed in *)
(* Node.js routes every operation to the event-store adapter when          *)
(* config.useFirebase is true and to the file adapter when it is not; in   *)
(* any other context it routes to the HTTP adapter.  Neither the adapter   *)
(* nor getEnvironment() changes after construction, configure() included.  *)
C26_FacadeSelectsAdapter ==
  [][ facade.constructed =>
        /\ kind = (IF facade.context = "node"
                   THEN IF facade.config.useFirebase THEN "firebase"
                        ELSE "file"
                   ELSE "http")
        /\ getEnvironment = (IF facade.context = "node" THEN "node"
                             ELSE "browser")
        /\ kind' = kind
        /\ getEnvironment' = getEnvironment ]_vars

----------------------------------------------------------------------------
(* The namespace key: FirebaseServiceRegistry.sanitizeUserId.  A string is *)
(* a sequence of one-character strings.                                    *)

LowerCase == <<"a", "b", "c", "d", "e", "f", "g", "h", "i", "j", "k", "l", "m",
               "n", "o", "p", "q", "r", "s", "t", "u", "v", "w", "x", "y", "z">>
UpperCase == <<"A", "B", "C", "D", "E", "F", "G", "H", "I", "J", "K", "L", "M",
               "N", "O", "P", "Q", "R", "S", "T", "U", "V", "W", "X", "Y", "Z">>
Digits    == {"0", "1", "2", "3", "4", "5", "6", "7", "8", "9"}
Dash      == "-"

Range(seq) == {seq[i] : i \in DOMAIN seq}

\* the characters of the class [a-z0-9-_]
KeyChars == Range(LowerCase) \cup Digits \cup {Dash, "_"}

\* String.prototype.toLowerCase, character by character
LowerOf(ch) ==
  IF \E i \in DOMAIN UpperCase : UpperCase[i] = ch
  THEN LowerCase[CHOOSE i \in DOMAIN UpperCase : UpperCase[i] = ch]
  ELSE ch
toLowerCase(str) == [i \in DOMAIN str |-> LowerOf(str[i])]

\* .replace(/[^a-z0-9-_]/g, '-')
ReplaceInvalid(str) ==
  [i \in DOMAIN str |-> IF str[i] \in KeyChars THEN str[i] ELSE Dash]

\* .replace(/-+/g, '-')
RECURSIVE CollapseDashes(_)
CollapseDashes(str) ==
  IF Len(str) <= 1 THEN str
  ELSE IF str[1] = Dash /\ str[2] = Dash THEN CollapseDashes(Tail(str))
  ELSE <<str[1]>> \o CollapseDashes(Tail(str))

\* .replace(/^-|-$/g, ''): one dash off the start, one dash off the end
TrimDashes(str) ==
  LET noLead == IF str # <<>> /\ Head(str) = Dash THEN Tail(str) ELSE str
  IN IF noLead # <<>> /\ noLead[Len(noLead)] = Dash
     THEN SubSeq(noLead, 1, Len(noLead) - 1) ELSE noLead

\* .substring(0, 50)
MaxKeyLength == 50
Truncate(str) ==
  SubSeq(str, 1, IF Len(str) < MaxKeyLength THEN Len(str) ELSE MaxKeyLength)

\* || 'unknown-user'
UnknownUser == <<"u", "n", "k", "n", "o", "w", "n", "-", "u", "s", "e", "r">>

\* variant of sanitizeUserId that cuts to length before trimming the dashes
sanitizeUserIdCutsFirst(str) ==
  LET key == TrimDashes(CollapseDashes(Truncate(
               ReplaceInvalid(toLowerCase(str)))))
  IN IF key = <<>> THEN UnknownUser ELSE key

sanitizeUserId(str) ==
  LET key == Truncate(TrimDashes(CollapseDashes(
               ReplaceInvalid(toLowerCase(str)))))
  IN IF key = <<>> THEN UnknownUser ELSE key

(* The strings tried: every string of up to MaxPrefix characters, a run of *)
(* one character whose length is around the length limit, and every string *)
(* of up to MaxSuffix characters; and the strings of the test suite.       *)
MaxPrefix == 2
MaxSuffix == 2
AffixChars == {"a", "B", "-", "_", "@"}
RECURSIVE StringsUpTo(_)
StringsUpTo(n) ==
  IF n = 0 THEN {<<>>}
  ELSE LET shorter == StringsUpTo(n - 1)
       IN shorter \cup {<<ch>> \o str : ch \in AffixChars, str \in shorter}
Run(ch, n) == [i \in 1..n |-> ch]
RunLengths == {0, MaxKeyLength - 1, MaxKeyLength, MaxKeyLength + 1}

ExampleInput ==
  <<"U", "s", "e", "r", "@", "N", "a", "m", "e", ".", "W", "i", "t", "h", "#",
    "I", "n", "v", "a", "l", "i", "d", "$", "C", "h", "a", "r", "s", "!">>
ExampleKey ==
  <<"u", "s", "e", "r", "-", "n", "a", "m", "e", "-", "w", "i", "t", "h", "-",
    "i", "n", "v", "a", "l", "i", "d", "-", "c", "h", "a", "r", "s">>

SanitizeInputs ==
  {pre \o Run(ch, n) \o post :
     pre \in StringsUpTo(MaxPrefix), post \in StringsUpTo(MaxSuffix),
     ch \in {"a", Dash}, n \in RunLengths}
    \cup {ExampleInput, Run("a", 2 * MaxKeyLength), <<"1", "2", "3">>,
          <<"!", "!", "!", "@", "@", "@", "#", "#", "#">>}

\* sanitizeUserId(idInput) is evaluated
Sanitize ==
  /\ kind = "firebase"
  /\ idInput # Unset
  /\ userId = Unset
  /\ userId' = sanitizeUserId(idInput)
  /\ UNCHANGED <<kind, clockVars, fileVars, last, httpVars, fbVars,
                 everRegistered, refVars, raceVars, facadeVars, timerVars,
                 isolationVars, idInput, identity, userIdFile>>
  /\ UNCHANGED protocolVars

InitSanitize ==
  /\ InitCore
  /\ kind = "firebase" /\ ~storeReachable /\ fallbackKind = "file"
  /\ RaceIdle
  /\ FacadeIdle
  /\ IsolationIdle
  /\ TimerIdle
  /\ ProtocolIdle
  /\ idInput \in SanitizeInputs
  /\ userId = Unset
  /\ identity = FixtureIdentity
  /\ userIdFile = NoFile

NextSanitize == Sanitize

SpecSanitize == InitSanitize /\ [][NextSanitize]_vars

\* the characters of str that are not dashes, in order
RECURSIVE SansDashes(_)
SansDashes(str) ==
  IF str = <<>> THEN <<>>
  ELSE IF Head(str) = Dash THEN SansDashes(Tail(str))
  ELSE <<Head(str)>> \o SansDashes(Tail(str))

\* what is left of the input's characters in a key: its letters (as lower
\* case), digits and underscores, in order
Skeleton(str) == SansDashes(ReplaceInvalid(toLowerCase(str)))

IsPrefix(a, b) == Len(a) <= Len(b) /\ a = SubSeq(b, 1, Len(a))

(* C27: namespace sanitization.  The key made from any input string is     *)
(* never empty, never longer than 50 characters, consists of characters of *)
(* [a-z0-9-_] only, neither starts with '-' nor holds two '-' in a row,    *)
(* and keeps the input's letters (lower-cased), digits and underscores in  *)
(* order, all of them unless it was cut at 50 characters; it is the fixed  *)
(* key 'unknown-user' when the input has none of those characters; and     *)
(* 'User@Name.With#Invalid$Chars!' gives 'user-name-with-invalid-chars'.   *)
C27_SanitizedKey ==
  userId # Unset =>
    /\ Len(userId) \in 1..MaxKeyLength
    /\ Range(userId) \subseteq KeyChars
    /\ userId[1] # Dash
    /\ \A i \in 1..(Len(userId) - 1) :
         ~(userId[i] = Dash /\ userId[i + 1] = Dash)
    /\ IF Skeleton(idInput) = <<>> THEN userId = UnknownUser
       ELSE /\ IsPrefix(SansDashes(userId), Skeleton(idInput))
            /\ Len(userId) < MaxKeyLength
                 => /\ SansDashes(userId) = Skeleton(idInput)
                    /\ userId[Len(userId)] # Dash
    /\ idInput = ExampleInput => userId = ExampleKey
    /\ idInput = Run("a", 2 * MaxKeyLength) => userId = Run("a", MaxKeyLength)

\* a key cut at the length limit, from an input that starts with invalid
\* characters and is longer than the limit
C27_Witness ==
  /\ userId # Unset /\ idInput # Unset
  /\ Len(userId) = MaxKeyLength /\ Len(idInput) > MaxKeyLength + 1
  /\ idInput[1] = "@" /\ idInput[2] = "B"
  /\ userId[1] = "b"

----------------------------------------------------------------------------
(* The namespace key: FirebaseServiceRegistry.getUserId and                *)
(* getOrCreateUniqueId, called by initializeFirebase and by register.      *)

\* String.prototype.trim
Whitespace == {" ", "\n"}
RECURSIVE TrimStart(_)
TrimStart(str) ==
  IF str # <<>> /\ Head(str) \in Whitespace THEN TrimStart(Tail(str)) ELSE str
RECURSIVE TrimEnd(_)
TrimEnd(str) ==
  IF str # <<>> /\ str[Len(str)] \in Whitespace
  THEN TrimEnd(SubSeq(str, 1, Len(str) - 1)) ELSE str
Trim(str) == TrimEnd(TrimStart(str))

\* .split('@')[0]
RECURSIVE LocalPart(_)
LocalPart(str) ==
  IF str = <<>> \/ Head(str) = "@" THEN <<>>
  ELSE <<Head(str)>> \o LocalPart(Tail(str))

\* `${Date.now()}`
DigitOf(d) == <<"0", "1", "2", "3", "4", "5", "6", "7", "8", "9">>[d + 1]
RECURSIVE DecimalOf(_)
DecimalOf(n) ==
  IF n < 10 THEN <<DigitOf(n)>>
  ELSE DecimalOf(n \div 10) \o <<DigitOf(n % 10)>>

\* Math.random().toString(36).substring(2, 8), two of its values
RandomSuffixes ==
  {<<"k", "3", "x", "9", "a", "b">>, <<"z", "0", "q", "7", "c", "d">>}

\* Both operators map what they consult to
\* [userId |-> the key returned, file |-> ~/.firesite/user-id afterwards]
getOrCreateUniqueId(f, writable, t, rand) ==
  IF f # NoFile /\ Trim(f) # <<>>
  THEN [userId |-> sanitizeUserId(Trim(f)), file |-> f]
  ELSE LET uniqueId == <<"u", "s", "e", "r", "-">> \o DecimalOf(t)
                         \o <<"-">> \o rand
           sanitizedId == sanitizeUserId(uniqueId)
       IN [userId |-> sanitizedId,
           file |-> IF writable THEN sanitizedId ELSE f]

\* variant of getUserId that asks the operating system before git
getUserIdUsernameFirst(id, f, t, rand) ==
  IF id.override \notin {Unset, <<>>}
  THEN [userId |-> sanitizeUserId(id.override), file |-> f]
  ELSE IF id.username \notin {Unavailable, <<>>}
  THEN [userId |-> sanitizeUserId(id.username), file |-> f]
  ELSE IF id.gitEmail # Unavailable /\ Trim(id.gitEmail) # <<>>
  THEN [userId |-> sanitizeUserId(LocalPart(Trim(id.gitEmail))), file |-> f]
  ELSE getOrCreateUniqueId(f, id.homeWritable, t, rand)

getUserId(id, f, t, rand) ==
  IF id.override \notin {Unset, <<>>}
  THEN [userId |-> sanitizeUserId(id.override), file |-> f]
  ELSE IF id.gitEmail # Unavailable /\ Trim(id.gitEmail) # <<>>
  THEN [userId |-> sanitizeUserId(LocalPart(Trim(id.gitEmail))), file |-> f]
  ELSE IF id.username \notin {Unavailable, <<>>}
  THEN [userId |-> sanitizeUserId(id.username), file |-> f]
  ELSE getOrCreateUniqueId(f, id.homeWritable, t, rand)

(* The sources tried *)
CustomUser == <<"c", "u", "s", "t", "o", "m", "-", "u", "s", "e", "r">>
JohnDoeEmail ==
  <<"j", "o", "h", "n", ".", "d", "o", "e", "@", "e", "x", "a", "m", "p", "l",
    "e", ".", "c", "o", "m", "\n">>
JohnDoe == <<"j", "o", "h", "n", "-", "d", "o", "e">>
TestUser == <<"t", "e", "s", "t", "u", "s", "e", "r">>
StoredId ==
  <<"t", "e", "s", "t", "-", "u", "s", "e", "r", "-", "1", "2", "3", "\n">>

Identities ==
  [override : {Unset, <<>>, CustomUser},
   gitEmail : {Unavailable, <<"\n">>, JohnDoeEmail},
   username : {Unavailable, <<>>, TestUser},
   homeWritable : BOOLEAN]
UserIdFiles == {NoFile, <<"\n">>, StoredId}

\* one resolution of the namespace key
ResolveUserId(rand) ==
  /\ kind = "firebase"
  /\ LET r == getUserId(identity, userIdFile, now, rand)
     IN /\ userId' = r.userId
        /\ userIdFile' = r.file
  /\ last' = EnvCall("getUserId", Undefined)
  /\ UNCHANGED <<kind, clockVars, fileVars, httpVars, fbVars, everRegistered,
                 refVars, raceVars, facadeVars, timerVars, isolationVars,
                 idInput, identity>>
  /\ UNCHANGED protocolVars

\* the override is set or removed, git or the user database comes or goes
IdentityChange(id) ==
  /\ kind = "firebase"
  /\ id # identity
  /\ identity' = id
  /\ last' = EnvCall("identity", Undefined)
  /\ UNCHANGED <<kind, clockVars, fileVars, httpVars, fbVars, everRegistered,
                 refVars, raceVars, facadeVars, timerVars, isolationVars,
                 idInput, userId, userIdFile>>
  /\ UNCHANGED protocolVars

InitIdentity ==
  /\ InitCore
  /\ kind = "firebase" /\ ~storeReachable /\ fallbackKind = "file"
  /\ RaceIdle
  /\ FacadeIdle
  /\ IsolationIdle
  /\ TimerIdle
  /\ ProtocolIdle
  /\ idInput = Unset
  /\ userId = Unset
  /\ identity \in Identities
  /\ userIdFile \in UserIdFiles

NextIdentity ==
  \/ \E rand \in RandomSuffixes : ResolveUserId(rand)
  \/ \E id \in Identities : IdentityChange(id)
  \/ Tick

SpecIdentity == InitIdentity /\ [][NextIdentity]_vars

\* which sources are available
HasOverride == identity.override \notin {Unset, <<>>}
HasGitEmail == identity.gitEmail \notin {Unavailable, <<"\n">>}
HasUsername == identity.username \notin {Unavailable, <<>>}
HasStoredId == userIdFile \notin {NoFile, <<"\n">>}

----------------------------------------------------------------------------
(* The isolation scenario: two FirebaseServiceRegistry instances with the  *)
(* namespace keys alice and bob on one event store and one home directory. *)
(* The adapter variables hold the instance that is acting; the instances   *)
(* take turns.  Each registers under a port of its own, which tells whose  *)
(* record a call returns.                                                  *)

Other(i) == CHOOSE j \in Instances : j # i

\* the store's content at a path: the acting instance's subtrees are the
\* adapter variables
ServicesAt(path) ==
  IF path = servicesPath(NamespaceOf[acting]) THEN fbServices ELSE rtdb[path]
PresenceAt(path) ==
  IF path = presencePath(NamespaceOf[acting]) THEN fbPresence ELSE rtdb[path]

PortOf == [i \in Instances |-> IF i = "i1" THEN 3000 ELSE 3001]
IsolationOptions(i) == [TypicalOptions EXCEPT !.port = PortOf[i]]

\* cleanup() finds every health endpoint answering, or none
IsolationEnvs ==
  {env \in CleanupEnvs : /\ env.live = {SelfPid, 1234}
                         /\ env.healthy \in {{}, Names}
                         /\ env.fault = "none"}

\* the other instance becomes the one whose calls are made
SwitchInstance ==
  LET mine   == NamespaceOf[acting]
      theirs == NamespaceOf[Other(acting)]
      stored == [path \in Paths |->
                   IF path = servicesPath(mine) THEN fbServices
                   ELSE IF path = presencePath(mine) THEN fbPresence
                   ELSE rtdb[path]]
  IN /\ kind = "firebase"
     /\ acting' = Other(acting)
     /\ rtdb' = stored
     /\ fbServices' = stored[servicesPath(theirs)]
     /\ fbPresence' = stored[presencePath(theirs)]
     /\ parked' = [isInitialized      |-> isInitialized,
                   hooks              |-> hooks,
                   currentServiceName |-> currentServiceName,
                   healthTimers       |-> healthTimers]
     /\ isInitialized' = parked.isInitialized
     /\ hooks' = parked.hooks
     /\ currentServiceName' = parked.currentServiceName
     /\ healthTimers' = parked.healthTimers
     /\ last' = EnvCall("switch", Undefined)
     /\ UNCHANGED <<kind, clockVars, fileVars, httpVars, storeReachable,
                    fallbackKind, everRegistered, refVars, raceVars,
                    facadeVars, identityVars, timerVars>>
     /\ UNCHANGED protocolVars

\* the store comes and goes between the calls
StoreChange ==
  /\ ReachabilityChange
  /\ last' = last

IsolationRegister(name, options) == FbRegister(name, options)

InitIsolation == Init /\ kind = "firebase"

NextIsolation ==
  \/ \E name \in Names : IsolationRegister(name, IsolationOptions(acting))
  \/ \E name \in Names : FbDiscover(name, FALSE, "ok")
  \/ \E name \in Names : FbUnregister(name)
  \/ FbListServices
  \/ \E env \in IsolationEnvs : Cleanup(env)
  \/ SwitchInstance
  \/ StoreChange

SpecIsolation == InitIsolation /\ [][NextIsolation]_vars

\* whether the next call of the instance that is not acting uses the store
OtherUsesStore == initializeFirebase(parked.isInitialized, storeReachable)

\* what listServices() of the instance that is not acting would return now
OtherListed ==
  IF OtherUsesStore
  THEN LET theirs   == NamespaceOf[Other(acting)]
           services == ServicesAt(servicesPath(theirs))
           presence == PresenceAt(presencePath(theirs))
           online   == {n \in DOMAIN services : PresenceOnline(presence, n)}
       IN Listed({services[n] : n \in online})
  ELSE FallbackListServices(file, now).result

\* what discover(name) of the instance that is not acting would return now
OtherFound(name) ==
  IF OtherUsesStore
  THEN LET theirs   == NamespaceOf[Other(acting)]
           services == ServicesAt(servicesPath(theirs))
           presence == PresenceAt(presencePath(theirs))
       IN IF name \in DOMAIN services /\ PresenceOnline(presence, name)
          THEN Found(services[name]) ELSE Null
  ELSE FallbackDiscover(file, name, FALSE, "ok", now).result

IsolationOps == {"register", "unregister", "discover", "listServices",
                 "cleanup"}

\* a step in which the acting instance runs one of the five operations
IsolationCall ==
  /\ acting' = acting
  /\ storeReachable' = storeReachable
  /\ last'.op \in IsolationOps

\* the records a call returned
Returned(result) ==
  IF result.outcome = "record" THEN {result.value}
  ELSE IF result.outcome = "list" THEN result.value
  ELSE {}

ViewsKept ==
  /\ OtherListed' = OtherListed
  /\ \A name \in Names : OtherFound(name)' = OtherFound(name)

ReturnsOwn ==
  \A service \in Returned(last'.result) : service.port = PortOf[acting]

(* C29 as stated: for two instances with different namespace keys, no      *)
(* register / unregister / discover / listServices / cleanup of one        *)
(* changes what discover or listServices of the other returns, and no call *)
(* returns a record the other registered.                                  *)
C29_IsolationAsClaimed ==
  [][ IsolationCall => (ViewsKept /\ ReturnsOwn) ]_vars

(* C29, amended: namespace isolation in the event-store adapter.  For two  *)
(* instances with different namespace keys, a register / unregister /      *)
(* discover / listServices / cleanup that one of them runs on the event    *)
(* store changes nothing of what discover or listServices of the other     *)
(* returns and returns no record the other registered; a call that runs on *)
(* the file fallback changes nothing of what an instance on the event      *)
(* store gets returned.  Calls on the file fallback share one              *)
(* registry.json, whatever the namespace keys.                             *)
C29_IsolationOnEventStore ==
  [][ IsolationCall =>
        /\ (isInitialized' \/ OtherUsesStore) => ViewsKept
        /\ isInitialized' => ReturnsOwn ]_vars

\* both instances hold a record of the same name in the store, each its
\* own, and the acting one has just listed its services
C29_Witness ==
  /\ isInitialized /\ parked.isInitialized
  /\ last.op = "listServices"
  /\ last.result.value # {}
  /\ \E name \in Names :
       /\ name \in DOMAIN fbServices
       /\ name \in DOMAIN rtdb[servicesPath(NamespaceOf[Other(acting)])]
       /\ OtherFound(name) # Null

----------------------------------------------------------------------------
(* The dispose scenario: a file or event-store adapter whose background    *)
(* timer fires between the calls until dispose() clears it, and dispose()  *)
(* called again and again.                                                 *)

MaxDisposals == 3

\* variant of NodeDispose that leaves the interval running
NodeDisposeKeepsTimer(timer) == timer

\* dispose: clearInterval(this.cleanupTimer); this.cleanupTimer = undefined
NodeDispose(timer) == FALSE

\* dispose of the event-store adapter: this.unregister(currentServiceName)
\* when a name is set, its rejection handed to console.error, then
\* this.fallbackRegistry.dispose()
FirebaseDispose(t) ==
  IF currentServiceName # Undefined
  THEN [FirebaseUnregister(currentServiceName, t) EXCEPT !.result = Ok]
  ELSE FirebaseState(isInitialized, file, fbServices, fbPresence, hooks,
                     currentServiceName, healthTimers, Ok, 0)

FallbackDispose(timer) ==
  IF fallbackKind = "file" THEN NodeDispose(timer) ELSE timer

Dispose ==
  /\ disposals < MaxDisposals
  /\ disposals' = disposals + 1
  /\ \/ /\ kind = "file"
        /\ cleanupTimer' = NodeDispose(cleanupTimer)
        /\ last' = Call("dispose", Undefined, Undefined,
                        [result |-> Ok, probes |-> 0])
        /\ UNCHANGED <<fileVars, fbVars>>
     \/ /\ kind = "firebase"
        /\ cleanupTimer' = FallbackDispose(cleanupTimer)
        /\ LET r == FirebaseDispose(now)
           IN /\ isInitialized' = r.initialized
              /\ file' = r.file
              /\ fbServices' = r.services
              /\ fbPresence' = r.presence
              /\ hooks' = r.hooks
              /\ currentServiceName' = r.current
              /\ healthTimers' = r.timers
              /\ last' = Call("dispose", Undefined, Undefined, r)
        /\ UNCHANGED <<storeReachable, fallbackKind>>
  /\ UNCHANGED <<kind, clockVars, httpVars, everRegistered, refVars,
                 raceVars, facadeVars, identityVars, isolationVars>>
  /\ UNCHANGED protocolVars

\* the interval set by startCleanup fires: this.cleanup(), a rejection
\* handed to console.warn.  The event-store adapter's only such timer is
\* its fallback registry's, which cleans registry.json.
CleanupTimer(env) ==
  /\ cleanupTimer
  /\ LET r == NodeCleanup(file, env, now)
     IN \/ NodeStep("cleanupTimer", Undefined, env, r)
        \/ FirebaseStep("cleanupTimer", Undefined, env,
             FirebaseState(isInitialized, r.file, fbServices, fbPresence,
                           hooks, currentServiceName, healthTimers, r.result,
                           r.probes))
  /\ UNCHANGED refVars

DisposeEnvs ==
  {env \in CleanupEnvs : env.healthy \in {{}, Names} /\ env.fault = "none"}

InitDispose == Init /\ kind \in {"file", "firebase"}

NextDispose ==
  \/ \E name \in Names, options \in {TypicalOptions, MinimalOptions} :
       Register(name, options)
  \/ \E name \in Names : Unregister(name)
  \/ \E env \in DisposeEnvs : CleanupTimer(env)
  \/ Dispose
  \/ Elapse

SpecDispose == InitDispose /\ [][NextDispose]_vars

DisposeStep == disposals' = disposals + 1

\* what an adapter instance holds and has stored
AdapterState == <<fileVars, fbVars, cleanupTimer>>

(* C30: dispose() is idempotent and releases the background timer.  No     *)
(* dispose() call raises; a dispose() that follows a dispose() leaves the  *)
(* adapter and its store as the first one left them; and once a dispose()  *)
(* has returned, the periodic timer starts no cleanup() run.               *)
C30_DisposeIdempotent ==
  [][ /\ DisposeStep => last'.result = Ok
      /\ (DisposeStep /\ last.op = "dispose") => AdapterState' = AdapterState
      /\ (disposals >= 1 /\ ~DisposeStep) => last'.op # "cleanupTimer" ]_vars

\* dispose() has returned for the second time on an event-store adapter
\* that had registered a service, and the timer is cleared
C30_Witness ==
  /\ kind = "firebase"
  /\ currentServiceName # Undefined
  /\ disposals >= 2
  /\ last.op = "dispose"
  /\ ~cleanupTimer
----------------------------------------------------------------------------
(* The retry scenario: discover of a file or HTTP adapter with a retry     *)
(* count, the store answering or failing attempt by attempt.               *)

MaxRetries == 2

\* per attempt, whether the store can be read: for the file adapter, that
\* readFile and JSON.parse succeed (or the file is missing); for the HTTP
\* adapter, that the request to the endpoint succeeds
Readings(retries) == [1..(retries + 1) -> BOOLEAN]

WithAttempts(r, n) ==
  [k \in (DOMAIN r) \cup {"attempts"} |-> IF k = "attempts" THEN n ELSE r[k]]

\* variant of NodeDiscoverFrom whose loop runs while attempt < retries
RECURSIVE NodeDiscoverOneLess(_, _, _, _, _)
NodeDiscoverOneLess(attempt, f, name, options, t) ==
  IF attempt >= options.retries
  THEN WithAttempts([file |-> f, probes |-> 0,
                     result |-> IF attempt > 0 THEN RegistryUnavailableError
                                ELSE Null], attempt)
  ELSE IF options.reads[attempt + 1]
  THEN WithAttempts(NodeDiscover(f, name, options.includeHealth, "ok", t),
                    attempt + 1)
  ELSE NodeDiscoverOneLess(attempt + 1, f, name, options, t)

\* discover: for (attempt = 0; attempt <= retries; attempt++), returning
\* from inside the try, recording lastError in the catch; after the loop,
\* RegistryUnavailableError if lastError is set and null otherwise
RECURSIVE NodeDiscoverFrom(_, _, _, _, _)
NodeDiscoverFrom(attempt, f, name, options, t) ==
  IF attempt > options.retries
  THEN WithAttempts([file |-> f, probes |-> 0,
                     result |-> IF attempt > 0 THEN RegistryUnavailableError
                                ELSE Null], attempt)
  ELSE IF options.reads[attempt + 1]
  THEN WithAttempts(NodeDiscover(f, name, options.includeHealth, "ok", t),
                    attempt + 1)
  ELSE NodeDiscoverFrom(attempt + 1, f, name, options, t)

\* the same loop of the HTTP adapter around fetchRegistry
RECURSIVE BrowserDiscoverFrom(_, _, _, _, _, _)
BrowserDiscoverFrom(attempt, c, r, name, options, t) ==
  IF attempt > options.retries
  THEN WithAttempts([cache |-> c, probes |-> 0, fetched |-> attempt > 0,
                     result |-> IF attempt > 0 THEN RegistryUnavailableError
                                ELSE Null], attempt)
  ELSE IF fetchRegistry(c, r, options.reads[attempt + 1], t).ok
  THEN WithAttempts(BrowserDiscover(c, r, options.reads[attempt + 1], name,
                                    options.includeHealth, "ok", t),
                    attempt + 1)
  ELSE BrowserDiscoverFrom(attempt + 1, c, r, name, options, t)

RetryArgs ==
  UNION {[includeHealth : {FALSE}, retries : {retries},
          reads : Readings(retries)] : retries \in 0..MaxRetries}

DiscoverRetrying(name, arg) ==
  /\ \/ /\ kind = "file"
        /\ LET r == NodeDiscoverFrom(0, file, name, arg, now)
           IN /\ file' = r.file
              /\ last' = Call("discover", name, arg, r)
              /\ attempts' = r.attempts
        /\ UNCHANGED httpVars
     \/ /\ kind = "http"
        /\ LET r == BrowserDiscoverFrom(0, cache, remote, name, arg, now)
           IN /\ cache' = r.cache
              /\ fetched' = r.fetched
              /\ last' = Call("discover", name, arg, r)
              /\ attempts' = r.attempts
        /\ UNCHANGED <<fileVars, remote, netUp, clearedAt>>
  /\ UNCHANGED <<kind, clockVars, fbVars, everRegistered, refVars, raceVars,
                 facadeVars, identityVars, isolationVars, timerVars, reg,
                 announced, reader, namespace>>

\* register, unregister and listServices of the file adapter: one try
\* block around loadRegistry (and saveRegistry), whose catch throws
\* RegistryUnavailableError; options.reads[1] tells whether that one access
\* works
NodeCallOnce(op, f, name, options, t) ==
  IF ~options.reads[1]
  THEN WithAttempts([file |-> f, result |-> RegistryUnavailableError,
                     probes |-> 0], 1)
  ELSE WithAttempts(
         CASE op = "register" -> NodeRegister(f, name, TypicalOptions, t)
           [] op = "unregister" -> NodeUnregister(f, name, t)
           [] op = "listServices" -> NodeListServices(f, t), 1)

OnceOps == {"register", "unregister", "listServices"}

StoreCall(op, name, arg) ==
  /\ kind = "file"
  /\ LET r == NodeCallOnce(op, file, name, arg, now)
     IN /\ file' = r.file
        /\ last' = Call(op, name, arg, r)
        /\ attempts' = r.attempts
        /\ Registering(op, name, r)
  /\ UNCHANGED <<reg, announced, reader, namespace>>
  /\ UNCHANGED <<kind, clockVars, httpVars, fbVars, refVars, raceVars,
                 facadeVars, identityVars, isolationVars, timerVars>>

InitRetry == Init /\ kind \in {"file", "http"}

NextRetry ==
  \/ Register("svc-a", TypicalOptions)
  \/ RemoteRegister("svc-a", TypicalOptions)
  \/ \E name \in Names, arg \in RetryArgs : DiscoverRetrying(name, arg)
  \/ \E op \in OnceOps, arg \in RetryArgs : StoreCall(op, "svc-a", arg)
  \/ HttpTick

SpecRetry == InitRetry /\ [][NextRetry]_vars

\* whether attempt k of the discover call of this step reads the store
ReadsStore(k) ==
  IF kind = "file" THEN last'.arg.reads[k]
  ELSE fetchRegistry(cache, remote, last'.arg.reads[k], now).ok

\* the names in the store the call of this step reads
NamesRead(k) ==
  IF kind = "file" THEN DOMAIN loadRegistry(file, now).services
  ELSE DOMAIN fetchRegistry(cache, remote, last'.arg.reads[k],
                            now).data.services

(* C31: discover retry protocol (file and HTTP adapters).  With retry      *)
(* count r >= 0, discover makes at most r+1 store-access attempts; it      *)
(* returns at the first attempt that reads the store, the record or null   *)
(* for an absent name; and it raises RegistryUnavailableError only when    *)
(* all r+1 attempts fail to read the store.                                *)
C31_DiscoverRetries ==
  [][ (last'.op = "discover" /\ now' = now) =>
        LET all  == 1..(last'.arg.retries + 1)
            good == {k \in all : ReadsStore(k)}
        IN /\ attempts' \in all
           /\ good = {} =>
                /\ attempts' = last'.arg.retries + 1
                /\ last'.result = RegistryUnavailableError
           /\ good # {} =>
                /\ attempts' \in good
                /\ \A k \in good : attempts' <= k
                /\ last'.result =
                     IF last'.name \in NamesRead(attempts') THEN last'.result
                     ELSE Null
                /\ last'.name \in NamesRead(attempts') =>
                     /\ last'.result.outcome = "record"
                     /\ last'.result.value.name = last'.name ]_vars

\* a discover that found its record at the third attempt, after two
\* attempts that could not read the store
C31_Witness ==
  /\ last.op = "discover"
  /\ last.arg.retries = 2
  /\ attempts = 3
  /\ last.result.outcome = "record"
(* C32: uniform store-error policy.  register, unregister, discover and    *)
(* listServices retry a transient store-access failure up to the           *)
(* configured attempt count: a call during which the store fails at first  *)
(* and works at one of the later attempts does not raise                   *)
(* RegistryUnavailableError.                                               *)
C32_TransientFailureRetried ==
  [][ ( /\ last'.op \in OnceOps \cup {"discover"}
        /\ now' = now
        /\ "reads" \in DOMAIN last'.arg
        /\ \E k \in 1..(last'.arg.retries + 1) : last'.arg.reads[k] )
      => last'.result # RegistryUnavailableError ]_vars
----------------------------------------------------------------------------
(* The register protocol scenario: register of the event-store adapter     *)
(* write by write (ServiceRecord, onDisconnect hook, PresenceRecord), with *)
(* the connection dropping and other processes of the namespace reading in *)
(* between.                                                                *)

otherVars == <<kind, clockVars, fileVars, httpVars, storeReachable,
               fallbackKind, refVars, raceVars, facadeVars, identityVars,
               isolationVars, timerVars, attempts, reader,
               namespace>>

\* await this.initializeFirebase(), and the try block is entered
RegisterBegin(name, options) ==
  /\ kind = "firebase"
  /\ reg = Idle
  /\ initializeFirebase(isInitialized, storeReachable)
  /\ isInitialized' = TRUE
  /\ reg' = [pc |-> "service", name |-> name, options |-> options,
             before |-> <<fbServices, fbPresence>>]
  /\ last' = EnvCall("begin", name)
  /\ UNCHANGED <<fbServices, fbPresence, hooks, currentServiceName,
                 healthTimers, everRegistered, announced, otherVars>>

\* await this.servicesRef.child(name).set(serviceInfo)
RegisterWriteService ==
  /\ reg.pc = "service"
  /\ fbServices' = Put(fbServices, reg.name,
                       FirebaseServiceInfoOf(reg.name, reg.options, now))
  /\ reg' = [reg EXCEPT !.pc = "hook"]
  /\ last' = EnvCall("write", reg.name)
  /\ UNCHANGED <<isInitialized, fbPresence, hooks, currentServiceName,
                 healthTimers, everRegistered, announced, otherVars>>

\* await presenceRef.onDisconnect().remove()
RegisterArmHook ==
  /\ reg.pc = "hook"
  /\ hooks' = hooks \cup {reg.name}
  /\ reg' = [reg EXCEPT !.pc = "presence"]
  /\ last' = EnvCall("write", reg.name)
  /\ UNCHANGED <<isInitialized, fbServices, fbPresence, currentServiceName,
                 healthTimers, everRegistered, announced, otherVars>>

\* await presenceRef.set({online: true, ...}); currentServiceName = name;
\* startHealthUpdates; return
RegisterWritePresence ==
  /\ reg.pc = "presence"
  /\ fbPresence' =
       Put(fbPresence, reg.name,
           PresenceOf(FirebaseServiceInfoOf(reg.name, reg.options, now), now))
  /\ currentServiceName' = reg.name
  /\ healthTimers' = IF TruthyStr(reg.options.healthUrl)
                     THEN healthTimers \cup {reg.name} ELSE healthTimers
  /\ reg' = Idle
  /\ last' = Call("register", reg.name, reg.options,
                  [result |-> Ok, probes |-> 0])
  /\ everRegistered' = everRegistered \cup {reg.name}
  /\ announced' = IF reg.name \in hooks THEN announced \cup {reg.name}
                  ELSE announced \ {reg.name}
  /\ UNCHANGED <<isInitialized, fbServices, hooks, otherVars>>

\* the write that is due is rejected by the store: the catch throws
\* RegistryUnavailableError
RegisterFails ==
  /\ reg.pc \in {"service", "hook", "presence"}
  /\ reg' = Idle
  /\ last' = Call("register", reg.name, reg.options,
                  [result |-> RegistryUnavailableError, probes |-> 0])
  /\ UNCHANGED <<isInitialized, fbServices, fbPresence, hooks,
                 currentServiceName, healthTimers, everRegistered, announced,
                 otherVars>>

\* the connection to the event store drops and comes back: the store runs
\* the armed onDisconnect().remove() operations, each once, and the writes
\* still due are sent on the new connection
ConnectionDrops ==
  /\ kind = "firebase"
  /\ isInitialized
  /\ fbPresence' = [n \in (DOMAIN fbPresence) \ hooks |-> fbPresence[n]]
  /\ hooks' = {}
  /\ announced' = {}
  /\ last' = EnvCall("disconnect", Undefined)
  /\ UNCHANGED <<isInitialized, fbServices, currentServiceName, healthTimers,
                 everRegistered, reg, otherVars>>

\* discover(name) of another process of the namespace: what it does to the
\* shared store
OtherDiscover(name) ==
  /\ kind = "firebase"
  /\ isInitialized
  /\ fbServices' = FirebaseDiscover(name, FALSE, "ok", now).services
  /\ last' = EnvCall("otherDiscover", name)
  /\ UNCHANGED <<isInitialized, fbPresence, hooks, currentServiceName,
                 healthTimers, everRegistered, reg, announced, otherVars>>

\* listServices() of another process of the namespace
OtherListServices ==
  /\ kind = "firebase"
  /\ isInitialized
  /\ fbServices' = FirebaseListServices(now).services
  /\ last' = EnvCall("otherListServices", Undefined)
  /\ UNCHANGED <<isInitialized, fbPresence, hooks, currentServiceName,
                 healthTimers, everRegistered, reg, announced, otherVars>>

InitProtocol == Init /\ kind = "firebase" /\ storeReachable

NextProtocol ==
  \/ \E name \in Names : RegisterBegin(name, TypicalOptions)
  \/ RegisterWriteService
  \/ RegisterArmHook
  \/ RegisterWritePresence
  \/ RegisterFails
  \/ ConnectionDrops

SpecProtocol == InitProtocol /\ [][NextProtocol]_vars

NextConcurrent ==
  \/ NextProtocol
  \/ \E name \in Names : OtherDiscover(name)
  \/ OtherListServices
  \/ \E name \in Names : FbDiscover(name, FALSE, "ok")

SpecConcurrent == InitProtocol /\ [][NextConcurrent]_vars

(* C33: event-store register protocol.  When register(name) returns        *)
(* success, the ServiceRecord for name exists, the PresenceRecord for name *)
(* exists with online = true and the disconnect hook that removes it is    *)
(* armed; and at no point does an online PresenceRecord written by         *)
(* register exist without an armed hook.                                   *)
C33_RegisterProtocol ==
  /\ (last.op = "register" /\ last.result = Ok) =>
       /\ last.name \in DOMAIN fbServices
       /\ PresenceOnline(fbPresence, last.name)
       /\ last.name \in hooks
  /\ \A name \in DOMAIN fbPresence :
       fbPresence[name].online => name \in hooks
(* C34: event-store adapter, registration stays discoverable under         *)
(* concurrency.  If register(name) has returned success and the registrant *)
(* has neither disconnected nor unregistered, a discover(name) started     *)
(* afterwards returns the record, however the register's writes were       *)
(* interleaved with discover or listServices calls of other processes.     *)
C34_RegisteredStaysDiscoverable ==
  [][ (last'.op = "discover" /\ last'.name \in announced)
      => last'.result.outcome = "record" ]_vars

(* C38: a failed register leaves the store unchanged.  Whenever            *)
(* register(name) raises RegistryUnavailableError, the persisted state is  *)
(* the same as before the call: no ServiceRecord for name is left behind   *)
(* without its PresenceRecord when a later step of register fails.         *)
C38_FailedRegisterLeavesStore ==
  [][ ( /\ reg # Idle
        /\ last'.op = "register"
        /\ last'.result = RegistryUnavailableError )
      => <<fbServices', fbPresence'>> = reg.before ]_vars

----------------------------------------------------------------------------
(* The file adapter's calls that hold a loaded snapshot across an await:   *)
(* discover with includeHealth and cleanup() await a health probe between  *)
(* loadRegistry and saveRegistry, checkHealth awaits the read and then the *)
(* write.  Whatever completes in between is a separate step here.          *)

ReaderOps == {"discover", "checkHealth"}

\* what the reader holds once loadRegistry has returned
\* (loaded: the services as they were read, registry: the object the call
\* goes on to change and save)
Loaded(op, name, registry, changed, loaded) ==
  [pc |-> "probing", op |-> op, name |-> name, registry |-> registry,
   changed |-> changed, loaded |-> loaded]

readerRest == <<kind, clockVars, httpVars, fbVars, everRegistered, refVars,
                raceVars, facadeVars, identityVars, isolationVars, timerVars,
                attempts, reg, announced, namespace>>

\* discover(name, {includeHealth: true}) up to its probe, or checkHealth
\* up to its second loadRegistry: the snapshot is in memory, the record is
\* there and has a health endpoint
ReadLoad(op, name) ==
  /\ kind = "file"
  /\ reader = Idle
  /\ LET registry == loadRegistry(file, now)
     IN /\ name \in DOMAIN registry.services
        /\ registry.services[name].healthCheckUrl # NoUrl
        /\ reader' = Loaded(op, name, registry, TRUE, registry.services)
  /\ last' = EnvCall("load", name)
  /\ UNCHANGED <<fileVars, readerRest>>

\* saveRegistry(registry) of the snapshot loaded earlier, with the one
\* record's health fields set
SaveLoaded(f, r, probe, t) ==
  saveRegistry([r.registry EXCEPT
    !.services[r.name].isHealthy = NodePerformHealthCheck(probe),
    !.services[r.name].lastHealthCheck = t])

\* the rest of the call: the probe's answer is written into the loaded
\* snapshot and the snapshot is saved whole
ReadSave(probe) ==
  /\ kind = "file"
  /\ reader # Idle
  /\ reader.op \in ReaderOps
  /\ file' = SaveLoaded(file, reader, probe, now)
  /\ reader' = Idle
  /\ last' = [EnvCall(reader.op, reader.name) EXCEPT !.arg = probe,
                                                     !.probes = 1]
  /\ UNCHANGED readerRest

\* cleanup() started by the interval of startCleanup, up to the first
\* health probe it awaits: the records of dead processes are already
\* deleted from the loaded snapshot; those that fail their probe follow
CleanupLoad(env) ==
  /\ kind = "file"
  /\ reader = Idle
  /\ env.fault = "none"
  /\ LET registry == loadRegistry(file, now)
         gone == {n \in DOMAIN registry.services :
                    NodeCleanupRemoves(registry.services[n], env, now)}
         probed == {n \in DOMAIN registry.services :
                      NodeCleanupProbes(registry.services[n], env, now)}
         kept == [n \in (DOMAIN registry.services) \ gone |->
                    registry.services[n]]
     IN /\ probed # {}
        /\ reader' = Loaded("cleanup", Undefined,
                            [services |-> kept, lastUpdated |-> now],
                            gone # {}, registry.services)
  /\ last' = EnvCall("load", Undefined)
  /\ UNCHANGED <<fileVars, readerRest>>

\* if (hasChanges): lastUpdated is set and the loaded object is saved
CleanupSaved(f, r, t) ==
  IF r.changed THEN saveRegistry([r.registry EXCEPT !.lastUpdated = t])
  ELSE f

CleanupSave ==
  /\ kind = "file"
  /\ reader # Idle
  /\ reader.op = "cleanup"
  /\ file' = CleanupSaved(file, reader, now)
  /\ reader' = Idle
  /\ last' = EnvCall("cleanup", Undefined)
  /\ UNCHANGED readerRest

ReaderOptions == {TypicalOptions, [TypicalOptions EXCEPT !.port = 3001]}

InitReaders == Init /\ kind = "file"

NextReaders ==
  \/ \E name \in Names, options \in ReaderOptions : Register(name, options)
  \/ \E name \in Names : Unregister(name)
  \/ \E op \in ReaderOps, name \in Names : ReadLoad(op, name)
  \/ \E probe \in {"ok", "notok"} : ReadSave(probe)
  \/ \E env \in CleanupEnvs : CleanupLoad(env)
  \/ CleanupSave
  \/ Elapse

SpecReaders == InitReaders /\ [][NextReaders]_vars

\* name -> port of the records in the snapshot file
PortsIn(f) ==
  LET services == loadRegistry(f, 0).services
  IN [n \in DOMAIN services |-> services[n].port]

ReadSaveStep == reader # Idle /\ reader.op \in ReaderOps /\ reader' = Idle

\* C35: the step in which discover(name, includeHealth) or checkHealth(name)
\* saves the snapshot leaves the set of registered names and every record's
\* port as the completed register and unregister calls of other processes
\* left them
C35_ReadPathsKeepMembership ==
  [][ReadSaveStep => PortsIn(file') = PortsIn(file)]_vars

CleanupSaveStep == reader # Idle /\ reader.op = "cleanup" /\ reader' = Idle

\* the names registered since the cleanup run loaded its snapshot
RegisteredSince(f, r) ==
  LET services == loadRegistry(f, 0).services
  IN {n \in DOMAIN services :
        \/ n \notin DOMAIN r.loaded
        \/ services[n] # r.loaded[n]}

\* C36: the save of a cleanup run that awaited a health probe keeps every
\* record that the same process registered after the run loaded its
\* snapshot
C36_CleanupKeepsOwnRegister ==
  [][CleanupSaveStep =>
       \A n \in RegisteredSince(file, reader) :
         n \in DOMAIN PortsIn(file')]_vars

----------------------------------------------------------------------------
(* The event-store adapter's writes that are not part of register or       *)
(* unregister: the interval of startHealthUpdates, and the health          *)
(* write-back of discover, which comes after an awaited probe.             *)

\* servicesRef.child(name).update({isHealthy, lastHealthCheck}): the two
\* fields are set at services/{name}, which comes to exist if it did not
UpdateHealth(services, name, isHealthy, t) ==
  IF name \in DOMAIN services
  THEN [services EXCEPT ![name].isHealthy = isHealthy,
                        ![name].lastHealthCheck = t]
  ELSE Put(services, name, [isHealthy |-> isHealthy, lastHealthCheck |-> t])

finalRest == <<kind, clockVars, fileVars, httpVars, storeReachable,
               fallbackKind, isInitialized, fbPresence, hooks,
               currentServiceName, healthTimers, everRegistered, refVars,
               raceVars, facadeVars, identityVars, isolationVars, timerVars,
               attempts, reg, announced, namespace>>

\* an interval set by startHealthUpdates fires: updateHealth probes the
\* service's endpoint and updates services/{serviceName}
HealthTimerFires(name, probe) ==
  /\ kind = "firebase"
  /\ name \in healthTimers
  /\ isInitialized
  /\ fbServices' = UpdateHealth(fbServices, name,
                                NodePerformHealthCheck(probe), now)
  /\ last' = [EnvCall("updateHealth", name) EXCEPT !.arg = probe,
                                                   !.probes = 1]
  /\ UNCHANGED <<finalRest, reader>>

\* discover(name, {includeHealth: true}) up to its probe: the ServiceRecord
\* and its presence have been read, the record has a health endpoint
DiscoverProbes(name) ==
  /\ kind = "firebase"
  /\ isInitialized
  /\ reader = Idle
  /\ name \in DOMAIN fbServices
  /\ PresenceOnline(fbPresence, name)
  /\ fbServices[name].healthCheckUrl # NoUrl
  /\ reader' = Loaded("discover", name, fbServices[name], FALSE, fbServices)
  /\ last' = EnvCall("read", name)
  /\ UNCHANGED <<finalRest, fbServices>>

\* the rest of that discover: the probe has answered, the health fields
\* are written back and the record is returned
DiscoverWritesBack(probe) ==
  /\ kind = "firebase"
  /\ reader # Idle
  /\ reader.op = "discover"
  /\ fbServices' = UpdateHealth(fbServices, reader.name,
                                NodePerformHealthCheck(probe), now)
  /\ reader' = Idle
  /\ last' = [EnvCall("writeBack", reader.name) EXCEPT !.arg = probe,
                                                       !.probes = 1]
  /\ UNCHANGED finalRest

InitFinal == Init /\ kind = "firebase" /\ storeReachable

NextFinal ==
  \/ \E name \in Names, options \in ReaderOptions : Register(name, options)
  \/ \E name \in Names : Unregister(name)
  \/ Dispose
  \/ \E name \in Names, probe \in {"ok", "notok"} :
       HealthTimerFires(name, probe)
  \/ \E name \in Names : DiscoverProbes(name)
  \/ \E probe \in {"ok", "notok"} : DiscoverWritesBack(probe)

SpecFinal == InitFinal /\ [][NextFinal]_vars

\* C37: a name without a ServiceRecord (resp. PresenceRecord) in the
\* namespace gets one only by register(name): once unregister or dispose
\* has removed the records, neither the health-update interval nor the
\* write-back of a discover in flight writes under services/{name}
C37_UnregisterIsFinal ==
  [][ \A n \in Names :
        \/ /\ n \notin DOMAIN fbServices
           /\ n \in DOMAIN fbServices'
        \/ /\ n \notin DOMAIN fbPresence
           /\ n \in DOMAIN fbPresence'
        => last'.op = "register" /\ last'.name = n ]_vars

----------------------------------------------------------------------------
\* C40: sanitizing a key again gives the same key, and no key begins or
\* ends with '-', whatever the input, inputs cut at the length limit
\* included
C40_SanitizeIdempotent ==
  userId # Unset =>
    /\ sanitizeUserId(userId) = userId
    /\ userId[1] # Dash
    /\ userId[Len(userId)] # Dash

----------------------------------------------------------------------------
(* The namespace of an instance and the identity in what it writes:        *)
(* initializeFirebase resolves getUserId() once, for the paths of          *)
(* servicesRef and presenceRef; register resolves it again for             *)
(* metadata.userId, metadata.sessionId and the PresenceRecord's userId.    *)

namespaceRest == <<kind, clockVars, fileVars, httpVars, storeReachable,
                   fallbackKind, everRegistered, refVars, raceVars,
                   facadeVars, isolationVars, timerVars, idInput, identity,
                   attempts, reg, announced, reader>>

\* the first use of the instance: initializeFirebase with the store in
\* reach; users/{userId} becomes the namespace of both references
InitializeNamespace(rand) ==
  /\ kind = "firebase"
  /\ ~isInitialized
  /\ storeReachable
  /\ LET r == getUserId(identity, userIdFile, now, rand)
     IN /\ namespace' = r.userId
        /\ userIdFile' = r.file
  /\ isInitialized' = TRUE
  /\ last' = EnvCall("initialize", Undefined)
  /\ UNCHANGED <<namespaceRest, userId, fbServices, fbPresence, hooks,
                 currentServiceName, healthTimers>>

\* the records of register with the key that its own getUserId() returned
IdentifiedAs(serviceInfo, id, t) ==
  [serviceInfo EXCEPT !.metadata["userId"] = id,
                      !.metadata["sessionId"] = <<id, t>>]
PresenceAs(presence, id) == [presence EXCEPT !.userId = id]

\* register on the initialised instance
RegisterIdentified(name, options, rand) ==
  /\ kind = "firebase"
  /\ isInitialized
  /\ LET r == getUserId(identity, userIdFile, now, rand)
         serviceInfo == IdentifiedAs(FirebaseServiceInfoOf(name, options, now),
                                     r.userId, now)
     IN /\ userId' = r.userId
        /\ userIdFile' = r.file
        /\ fbServices' = Put(fbServices, name, serviceInfo)
        /\ fbPresence' = Put(fbPresence, name,
                             PresenceAs(PresenceOf(serviceInfo, now),
                                        r.userId))
  /\ hooks' = hooks \cup {name}
  /\ currentServiceName' = name
  /\ healthTimers' = IF TruthyStr(options.healthUrl)
                     THEN healthTimers \cup {name} ELSE healthTimers
  /\ last' = Call("register", name, options, [result |-> Ok, probes |-> 0])
  /\ UNCHANGED <<namespaceRest, isInitialized, namespace>>

InitNamespace ==
  /\ InitCore
  /\ kind = "firebase" /\ storeReachable
  /\ RaceIdle
  /\ FacadeIdle
  /\ IsolationIdle
  /\ TimerIdle
  /\ ProtocolIdle
  /\ idInput = Unset
  /\ userId = Unset
  /\ identity \in Identities
  /\ userIdFile \in UserIdFiles

NextNamespace ==
  \/ \E rand \in RandomSuffixes : InitializeNamespace(rand)
  \/ \E rand \in RandomSuffixes :
       RegisterIdentified("svc-a", TypicalOptions, rand)
  \/ \E id \in Identities : IdentityChange(id)

SpecNamespace == InitNamespace /\ [][NextNamespace]_vars

\* C39: every ServiceRecord under users/{namespace}/services carries
\* metadata.userId equal to the namespace, and every PresenceRecord under
\* users/{namespace}/presence a userId equal to it
C39_StoredIdentityIsNamespace ==
  /\ \A n \in DOMAIN fbServices :
       fbServices[n].metadata["userId"] = namespace
  /\ \A n \in DOMAIN fbPresence : fbPresence[n].userId = namespace
====
